---- MODULE Spec2Model ----
(***************************************************************************)
(* A model of the efast-tool pipeline (pantierra/efast-tool):              *)
(*   clouds.py       detect_clouds          the seasonal cloud flagger     *)
(*   efast.py        prepare_s2/s3, run_efast (in-process variant)         *)
(*   call_efast.py   prepare_s2/s3, run_efast (efast-package variant)      *)
(* The file system of one site and season is the state.  Each stage is one *)
(* action; run_efast's date loop is one action per iteration.              *)
(*                                                                         *)
(* Numbers: an NDVI value is an integer count of hundredths (0.30 is 30);  *)
(* a timestamp is an integer count of ticks, TicksPerDay ticks a day; a    *)
(* pixel value is an exact fraction [n |-> numerator, d |-> denominator],  *)
(* with d = 0 for not-a-number.                                            *)
(***************************************************************************)
EXTENDS Integers, Sequences, FiniteSets, TLC

VARIABLES
    \* ---- detect_clouds (clouds.py)
    ts,         \* raw/ndvi/<source>/timeseries.json: [exists, data] per source
    clouds,     \* clouds.json: [exists, s2, s3], s2 and s3 lists of filenames
    win,        \* detect_clouds' window of each entry: the members' filenames
    cpc,        \* "start" before detect_clouds has run, "done" after
    \* ---- one date group of prepare_s3 (efast.py, call_efast.py)
    group,      \* s3_files of the date: the rasters as read, in list order
    variant,    \* which prepare_s3 ran: "efast" or "call_efast" ("none" before)
    nanMode,    \* how the resampling library treats a not-a-number source pixel
    composite,  \* composite_<date>.tif as written: [exists, px]
    kpc,        \* "start" before the date group is processed, "done" after
    \* ---- prepare_s2 and prepare_s3 over the directories of a season
    raw2,       \* raw/s2/*.geotiff: the filenames
    raw3,       \* raw/s3/*.geotiff: the filenames
    prep2,      \* prepared/s2: the REFL and DIST_CLOUD products
    prep3,      \* prepared/s3: the composites
    temp,       \* prepared/s3/temp_composites: dates of the files in it
    used,       \* the last prepare run: what it loaded, read, wrote, raised
    pvariant,   \* the module the stages are imported from
    runs,       \* prepare runs so far
    changes,    \* arrivals and new exclusions so far
    \* ---- run_efast (efast.py, call_efast.py)
    rvariant,   \* the module run_efast is imported from
    range,      \* date_range: [start, end], days numbered from 1
    fusion,     \* prepared/fusion: how often REFL_<date>.tif was written
    calls,      \* how often the fusion operation was invoked for a date
    visited,    \* this run's loop iterations: [date, outcome]
    current_date,
    rpc,        \* "idle", "loop", "returned" or "raised"
    rruns,      \* calls of run_efast so far
    \* ---- process_cropped, the choice of the DIST_CLOUD file (post_process.py)
    dist_listing,     \* the dates of prepared/s2's DIST_CLOUD files, as listed
    dist_cloud_dates, \* sorted(dist_cloud_files.keys())
    target_date,      \* the date of the fused file
    dist_cloud,       \* the date of the DIST_CLOUD file chosen; 0: none yet
    npc,              \* "start", "collected", "returned" or "found"
    \* ---- process_cropped (post_process.py)
    windowMode,       \* the rasterio release's Window.intersection
    dist_cloud_files, \* prepared/s2: date -> bounds of its DIST_CLOUD file
    refl_files,       \* prepared/s2: date -> REFL raster
    composite_files,  \* prepared/s3: date -> composite raster
    fused_files,      \* prepared/fusion: date -> fused raster
    fusion_bounds,    \* date -> crop bounds
    fusion_rows,      \* date -> first_valid_row
    chosen,           \* date -> date of the DIST_CLOUD file used for it
    processed,        \* processed/<kind>: date -> the file written
    cropped,          \* the calls of _crop_to_bounds so far and their results
    ztodo,            \* the files the current loop has still to visit
    zpc,              \* "start", the loop, "returned", "done" or "raised"
    \* ---- the fine and the coarse grid (efast.py, call_efast.py)
    s3_ref,           \* the coarse reference raster: size and pixel size
    floatError,       \* how the float quotients of call_efast.py round
    gvariant,         \* the module prepare_s3 is of
    refl_size,        \* width and height of the REFL product
    coarse_size,      \* width and height prepare_s3 gives its composites
    gpc,              \* "start", "s2" or "s3"
    \* ---- the DIST_CLOUD product of prepare_s2 (efast.py)
    s2_hr,            \* the first band of the REFL product: pixel -> value
    noBackground,     \* what the transform gives a raster without invalid pixel
    distance_to_cloud_hr, \* the clipped fine-resolution distance field
    distance_to_cloud_lr, \* the value of the coarse pixel over the block
    dpc,              \* "start", "hr" or "lr"
    \* ---- work units of different dates, interleaved
    s3_by_date,       \* run -> the dates of the run's date groups
    temp_exists,      \* prepared/s3/temp_composites exists
    temp_files,       \* the dates d of its files composite_d.tif
    itodo,             \* run -> the date groups still to be composed
    sen3_paths,       \* run -> the listed temporary composites still to reproject
    ipc,              \* run -> "start", "compose", "reproject", "done", "error"
    s3_out,           \* the dates d with prepared/s3/composite_d.tif
    s2_done,          \* the dates whose prepare_s2 unit has run
    crop_done,        \* the dates whose process_cropped unit has run
    touched,          \* path -> the units that wrote or deleted it
    \* ---- run_pipeline (run.py)
    pipe_dist_clouds, \* the dates with a DIST_CLOUD file in prepared/s2
    stage_raises,     \* stage -> the stage raises when it is called
    executed,         \* the stages called so far, in order
    warned,           \* process_cropped returned at its warning
    lpc,              \* the stage to call next, "returned" or "raised"
    \* ---- the window test of detect_clouds on two timestamps
    w_entry,       \* the timestamp of the entry whose window is built
    w_other,       \* the timestamp of another entry
    in_window,        \* <<other in the window of entry, entry in the window of other>>
    wpc,              \* "start" or "done"
    \* ---- two runs of the prepare stages on the same files
    o_raw2,           \* the files of raw/s2
    o_raw3,           \* the files of raw/s3
    o_grid,           \* coarse file -> its grid (bounds, size, reference)
    o_list,           \* run -> the orders glob lists raw/s2 and raw/s3 in
    ovariant,         \* "efast" or "call_efast"
    o_out,            \* run -> what the run prepared
    o_done,           \* the runs that have run
    \* ---- the directories the stages write and read
    f_site,           \* site_name
    f_season,         \* season (year of download_s2)
    f_items,          \* source -> the (date, increment) keys the search found
    f_clouds,         \* clouds.json: source -> the excluded file names
    f_tree,           \* the files under data/: directory and name
    f_written,        \* source -> the files its download wrote
    f_refl,           \* the dates with a REFL product in prepared/s2
    fpc               \* the stage to run next, "done" or "raised"

cvars == <<ts, clouds, win, cpc>>
kvars == <<group, variant, nanMode, composite, kpc>>
pvars == <<raw2, raw3, prep2, prep3, temp, used, pvariant, runs, changes>>
rvars == <<rvariant, range, fusion, calls, visited, current_date, rpc, rruns>>
nvars == <<dist_listing, dist_cloud_dates, target_date, dist_cloud, npc>>
zinputs == <<windowMode, dist_cloud_files, refl_files, composite_files, fused_files>>
zvars == <<zinputs, fusion_bounds, fusion_rows, chosen, processed, cropped, ztodo, zpc>>
gvars == <<s3_ref, floatError, gvariant, refl_size, coarse_size, gpc>>
dvars == <<s2_hr, noBackground, distance_to_cloud_hr, distance_to_cloud_lr, dpc>>
ivars == <<s3_by_date, temp_exists, temp_files, itodo, sen3_paths, ipc, s3_out, s2_done, crop_done, touched>>
lvars == <<pipe_dist_clouds, stage_raises, executed, warned, lpc>>
wvars == <<w_entry, w_other, in_window, wpc>>
ovars == <<o_raw2, o_raw3, o_grid, o_list, ovariant, o_out, o_done>>
fvars == <<f_site, f_season, f_items, f_clouds, f_tree, f_written, f_refl, fpc>>
xvars == <<nvars, zvars, gvars, dvars, ivars, lvars, wvars, ovars, fvars>>
vars == <<cvars, kvars, pvars, rvars, xvars>>

Sources == {"s2", "s3"}

(***************************************************************************)
(* Generic helpers.                                                        *)
(***************************************************************************)
Abs(x) == IF x < 0 THEN -x ELSE x

Range(s) == {s[i] : i \in 1..Len(s)}

\* Python's max() of a non-empty collection of numbers.
Max(S) == CHOOSE m \in S : \A x \in S : x <= m

(***************************************************************************)
(* clouds.py                                                               *)
(***************************************************************************)
WINDOW_DAYS == 14
NDVI_THRESHOLD == 30
NDVI_DELTA == 15
MIN_WINDOW_SIZE == 3

\* Ticks in a day: the resolution of a timestamp's time-of-day part.
TicksPerDay == 2

\* timedelta.days of a difference of two datetimes: the floor of the
\* difference in days (timedelta normalises to days >= any, seconds >= 0).
TimedeltaDays(delta) == delta \div TicksPerDay

\* A timeseries entry {date, filename, ndvi}; null is TRUE for "ndvi": null.
Entry(date, filename, ndvi, null) ==
    [date |-> date, filename |-> filename, ndvi |-> ndvi, null |-> null]

\* entries = [... for e in timeseries if e.get("ndvi") is not None]
EntriesOf(timeseries) == SelectSeq(timeseries, LAMBDA e : ~e.null)

InWindowLt(d, entry_date) == Abs(TimedeltaDays(d - entry_date)) < WINDOW_DAYS

\* abs((d - entry_date).days) <= WINDOW_DAYS
InWindow(d, entry_date) == Abs(TimedeltaDays(d - entry_date)) <= WINDOW_DAYS

\* The indices (into entries) of the members of window_ndvi for entry i.
WindowOf(entries, i) ==
    {j \in 1..Len(entries) : InWindow(entries[j].date, entries[i].date)}

IsCloudOr(ndvi, max_ndvi) ==
    ndvi < max_ndvi - NDVI_DELTA \/ ndvi < NDVI_THRESHOLD

\* entry["ndvi"] < threshold and entry["ndvi"] < NDVI_THRESHOLD
IsCloud(ndvi, max_ndvi) ==
    ndvi < max_ndvi - NDVI_DELTA /\ ndvi < NDVI_THRESHOLD

\* Whether the loop body appends entry i's filename.
Flags(entries, i) ==
    LET w == WindowOf(entries, i)
    IN  /\ ~(Cardinality(w) < MIN_WINDOW_SIZE)
        /\ IsCloud(entries[i].ndvi, Max({entries[j].ndvi : j \in w}))

\* clouds[source] after the loop over entries: filenames in entry order.
RECURSIVE FlaggedUpTo(_, _)
FlaggedUpTo(entries, n) ==
    IF n = 0 THEN <<>>
    ELSE LET rest == FlaggedUpTo(entries, n - 1)
         IN  IF Flags(entries, n) THEN Append(rest, entries[n].filename)
             ELSE rest

CloudsOfSource(s) ==
    IF ~ts[s].exists THEN <<>>
    ELSE LET entries == EntriesOf(ts[s].data)
         IN  FlaggedUpTo(entries, Len(entries))

\* The window of every entry of the loop, by filename.
WindowsOfSource(s) ==
    IF ~ts[s].exists THEN <<>>
    ELSE LET entries == EntriesOf(ts[s].data)
         IN  [i \in 1..Len(entries) |->
                [filename |-> entries[i].filename,
                 members |-> {entries[j].filename : j \in WindowOf(entries, i)}]]

\* detect_clouds(season, site_name): both sources, then clouds.json is
\* written (also when no timeseries.json exists).
detect_clouds ==
    /\ cpc = "start"
    /\ clouds' = [exists |-> TRUE, s2 |-> CloudsOfSource("s2"),
                  s3 |-> CloudsOfSource("s3")]
    /\ win' = [s \in Sources |-> WindowsOfSource(s)]
    /\ cpc' = "done"
    /\ UNCHANGED <<ts, kvars, pvars, rvars, xvars>>

(***************************************************************************)
(* Pixel values.  A raster's pixels are px[band][pixel], every value an    *)
(* exact fraction; float32 rounding is not modelled.                       *)
(***************************************************************************)
Bands == 1..2
Pixels == 1..2

RECURSIVE GCD(_, _)
GCD(a, b) == IF b = 0 THEN a ELSE GCD(b, a % b)

NaN == [n |-> 0, d |-> 0]
IsNaN(v) == v.d = 0

\* The fraction n/d, d > 0, in lowest terms.
Frac(n, d) == LET g == GCD(Abs(n), d) IN [n |-> n \div g, d |-> d \div g]

Num(k) == [n |-> k, d |-> 1]

\* IEEE addition and division by a count: not-a-number is absorbing.
FAdd(a, b) ==
    IF IsNaN(a) \/ IsNaN(b) THEN NaN ELSE Frac(a.n * b.d + b.n * a.d, a.d * b.d)

FDiv(a, k) == IF IsNaN(a) THEN NaN ELSE Frac(a.n, a.d * k)

RECURSIVE SumSeq(_)
SumSeq(vs) == IF vs = <<>> THEN Num(0) ELSE FAdd(Head(vs), SumSeq(Tail(vs)))

\* np.nanmean of a list of values: the mean of those that are numbers,
\* not-a-number when none is.
NanMean(vs) ==
    LET nums == SelectSeq(vs, LAMBDA v : ~IsNaN(v))
    IN  IF nums = <<>> THEN NaN ELSE FDiv(SumSeq(nums), Len(nums))

\* np.abs(x) >= 5; a comparison with not-a-number is False.
AbsGe5(v) == ~IsNaN(v) /\ Abs(v.n) >= 5 * v.d

(***************************************************************************)
(* WarpedVRT(src, transform, height, width, crs, resampling=cubic): the    *)
(* raster resampled onto the target grid.  The kernel is the library's; it *)
(* is modelled as a linear kernel over a pixel and its right neighbour     *)
(* (the last pixel over itself alone), the same for every band.  A source  *)
(* raster carries no nodata value, so what the library makes of a          *)
(* not-a-number source pixel is one of two outcomes: it enters the         *)
(* arithmetic ("propagate"), or it is left out of the kernel and a target  *)
(* pixel with no source pixel left keeps its initial 0 ("skip").           *)
(***************************************************************************)
NanModes == {"propagate", "skip"}

Footprint(p) == IF p + 1 \in Pixels THEN <<p, p + 1>> ELSE <<p>>

Resample(band, p, mode) ==
    LET src == [i \in 1..Len(Footprint(p)) |-> band[Footprint(p)[i]]]
    IN  IF mode = "propagate" THEN FDiv(SumSeq(src), Len(src))
        ELSE IF NanMean(src) = NaN THEN Num(0) ELSE NanMean(src)

Reproject(px, mode) ==
    [b \in Bands |-> [p \in Pixels |-> Resample(px[b], p, mode)]]

(***************************************************************************)
(* prepare_s3: the body of the loop over the date groups.                  *)
(***************************************************************************)
\* pixel_means = np.abs(np.nanmean(data, axis=0)); mask = pixel_means >= 5
OutlierMask(px) ==
    [p \in Pixels |-> AbsGe5(NanMean([b \in Bands |-> px[b][p]]))]

\* data[:, mask] = np.nan
RejectOutliers(px) ==
    [b \in Bands |-> [p \in Pixels |->
        IF OutlierMask(px)[p] THEN NaN ELSE px[b][p]]]

\* np.nanmean(np.array(s3_stack), axis=0)
NanMeanStack(stack) ==
    [b \in Bands |-> [p \in Pixels |->
        NanMean([m \in 1..Len(stack) |-> stack[m][b][p]])]]

CompositeEfastAlwaysStack(s3_files, mode) ==
    NanMeanStack([m \in 1..Len(s3_files) |->
        RejectOutliers(Reproject(s3_files[m], mode))])

\* efast.py: one file is copied through the WarpedVRT; several are each read
\* through the WarpedVRT, their outliers rejected, and the stack averaged.
CompositeEfast(s3_files, mode) ==
    IF Len(s3_files) = 1 THEN Reproject(s3_files[1], mode)
    ELSE NanMeanStack([m \in 1..Len(s3_files) |->
            RejectOutliers(Reproject(s3_files[m], mode))])

\* call_efast.py, first loop: temp_composites/composite_<date>.tif is a copy
\* of the one file, or the average of the files as read, outliers rejected.
TempComposite(s3_files) ==
    IF Len(s3_files) = 1 THEN s3_files[1]
    ELSE NanMeanStack([m \in 1..Len(s3_files) |-> RejectOutliers(s3_files[m])])

CompositeCallNoReject(s3_files, mode) ==
    Reproject(IF Len(s3_files) = 1 THEN s3_files[1]
              ELSE NanMeanStack(s3_files), mode)

\* call_efast.py, second loop: every temp composite is copied through the
\* WarpedVRT into prepared/s3.
CompositeCall(s3_files, mode) == Reproject(TempComposite(s3_files), mode)

\* efast.py, prepare_s3, one date whose composite does not exist yet.
prepare_s3_date_efast ==
    /\ kpc = "start"
    /\ composite' = [exists |-> TRUE, px |-> CompositeEfast(group, nanMode)]
    /\ variant' = "efast"
    /\ kpc' = "done"
    /\ UNCHANGED <<group, nanMode, cvars, pvars, rvars, xvars>>

\* call_efast.py, prepare_s3, one date.
prepare_s3_date_call ==
    /\ kpc = "start"
    /\ composite' = [exists |-> TRUE, px |-> CompositeCall(group, nanMode)]
    /\ variant' = "call_efast"
    /\ kpc' = "done"
    /\ UNCHANGED <<group, nanMode, cvars, pvars, rvars, xvars>>

(***************************************************************************)
(* prepare_s2 and prepare_s3 over directories.  A raw file is its name     *)
(* <<date, increment>> (<date>_<increment>.geotiff); a prepared product    *)
(* records the files it was made from.  A handler is one action; the order *)
(* in which glob lists a directory is any order.                           *)
(***************************************************************************)
Variants == {"efast", "call_efast"}

\* The stage runs and the changes to the inputs a behaviour may hold.
MaxRuns == 3
MaxChanges == 1

\* The acquisitions there may be: two fine ones of day 1; two coarse ones of
\* day 1 and one of day 2.
S2Names == {<<1, 0>>, <<1, 1>>}
S3Names == {<<1, 0>>, <<1, 1>>, <<2, 0>>}

\* date_str = file.name.split("_")[0]
DateOf(name) == name[1]

\* Any order glob may list the files of a directory in.
Orders(S) ==
    {o \in [1..Cardinality(S) -> S] :
        \A i, j \in 1..Cardinality(S) : i # j => o[i] # o[j]}

AnyOrder(S) == CHOOSE o \in Orders(S) : TRUE

\* One listing order for each file that may come first: only s3_files[0] is
\* read from a listing of which the first file alone is used.
FirstOrders(S) ==
    {CHOOSE o \in Orders(S) : o[1] = f : f \in S} \cup
        (IF S = {} THEN {<<>>} ELSE {})

\* _load_clouds(clouds_file): the two exclusion sets, empty without a file.
LoadClouds ==
    [s2 |-> IF clouds.exists THEN Range(clouds.s2) ELSE {},
     s3 |-> IF clouds.exists THEN Range(clouds.s3) ELSE {}]

\* S2A_MSIL2A_<date>_REFL.tif and S2A_MSIL2A_<date>_DIST_CLOUD.tif; src is
\* the raw file the REFL product was reprojected from.
Refl(date, src) == [kind |-> "REFL", date |-> date, src |-> src]
DistCloud(date, src) == [kind |-> "DIST_CLOUD", date |-> date, src |-> src]

\* composite_<date>.tif; members are the raw files of the date group.
Composite(date, members) == [date |-> date, members |-> members]

Exists(dir, kind, date) == \E x \in dir : x.kind = kind /\ x.date = date
Product(dir, kind, date) == CHOOSE x \in dir : x.kind = kind /\ x.date = date

NoName == <<0, 0>>

\* What a run did: the exclusion sets it loaded, the raw S3 file or the
\* prepared product (by date) it took the reference grid from, the raw
\* files it opened for their pixels, the products it wrote, whether it
\* raised.
Run(stage, excl, ref3, refp, read, wrote2, wrote3, raised) ==
    [stage |-> stage, excl |-> excl, ref3 |-> ref3, refp |-> refp,
     read |-> read, wrote2 |-> wrote2, wrote3 |-> wrote3, raised |-> raised]

NotExcludedNoFilter(files, excl) == files

\* [f for f in dir.glob("*.geotiff") if f.name not in clouds[...]]
NotExcluded(files, excl) == SelectSeq(files, LAMBDA f : f \notin excl)

\* efast.py, prepare_s2, the loop over s2_dir from file i on; st is the
\* directory with what was read and written so far.
RECURSIVE S2LoopEfast(_, _, _)
S2LoopEfast(files, i, st) ==
    IF i > Len(files) THEN st
    ELSE LET f == files[i]
             date == DateOf(f)
             st1 == IF Exists(st.dir, "REFL", date) THEN st
                    ELSE [dir |-> st.dir \cup {Refl(date, f)},
                          read |-> st.read \cup {f},
                          wrote |-> st.wrote \cup {Refl(date, f)}]
             dc == DistCloud(date, Product(st1.dir, "REFL", date).src)
             st2 == IF Exists(st1.dir, "DIST_CLOUD", date) THEN st1
                    ELSE [dir |-> st1.dir \cup {dc},
                          read |-> st1.read,
                          wrote |-> st1.wrote \cup {dc}]
         IN  S2LoopEfast(files, i + 1, st2)

\* call_efast.py, prepare_s2, the loop over s2_dir from file i on.
RECURSIVE S2LoopCall(_, _, _)
S2LoopCall(files, i, st) ==
    IF i > Len(files) THEN st
    ELSE LET f == files[i]
             date == DateOf(f)
             st1 == IF Exists(st.dir, "REFL", date) THEN st
                    ELSE [dir |-> st.dir \cup {Refl(date, f)},
                          read |-> st.read \cup {f},
                          wrote |-> st.wrote \cup {Refl(date, f)}]
         IN  S2LoopCall(files, i + 1, st1)

\* efast.s2_processing.distance_to_clouds(s2_output_dir, ratio): a
\* DIST_CLOUD product beside every REFL product of the directory.
DistanceToClouds(st) ==
    LET dcs == {DistCloud(r.date, r.src) : r \in {x \in st.dir : x.kind = "REFL"}}
    IN  [dir |-> {x \in st.dir : x.kind = "REFL"} \cup dcs,
         read |-> st.read,
         wrote |-> st.wrote \cup dcs]

S2Loop(files, st) ==
    IF pvariant = "efast" THEN S2LoopEfast(files, 1, st)
    ELSE DistanceToClouds(S2LoopCall(files, 1, st))

\* prepare_s2(season, site_position, site_name) of either module.
prepare_s2 ==
    /\ runs < MaxRuns
    /\ runs' = runs + 1
    /\ \E o3 \in FirstOrders(raw3), o2 \in Orders(raw2) :
          LET excl == LoadClouds
              s3_files == NotExcluded(o3, excl.s3)
              st == S2Loop(NotExcluded(o2, excl.s2),
                           [dir |-> prep2, read |-> {}, wrote |-> {}])
          IN  IF s3_files = <<>>
              THEN /\ used' = Run("prepare_s2", excl, NoName, 0, {}, {}, {}, TRUE)
                   /\ UNCHANGED prep2
              ELSE /\ used' = Run("prepare_s2", excl, s3_files[1], 0,
                                  st.read, st.wrote, {}, FALSE)
                   /\ prep2' = st.dir
    /\ UNCHANGED <<raw2, raw3, prep3, temp, pvariant, changes, cvars, kvars, rvars, xvars>>

GroupFirstOnly(files, date) ==
    <<(SelectSeq(files, LAMBDA f : DateOf(f) = date))[1]>>

\* s3_by_date[date_str]: the files of the date, in listing order.
Group(files, date) == SelectSeq(files, LAMBDA f : DateOf(f) = date)

GroupDates(files) == {DateOf(f) : f \in Range(files)}

CompositesOf(files, dates) == {Composite(d, Group(files, d)) : d \in dates}

MembersOf(composites) == UNION {Range(c.members) : c \in composites}

\* efast.py, prepare_s3: needs a DIST_CLOUD product for the grid; writes the
\* composite of every date group that has none yet.
prepare_s3_efast ==
    /\ pvariant = "efast"
    /\ runs < MaxRuns
    /\ runs' = runs + 1
    /\ \E o3 \in Orders(raw3) :
          LET excl == LoadClouds
              files == NotExcluded(o3, excl.s3)
              todo == {d \in GroupDates(files) : \A c \in prep3 : c.date # d}
              new == CompositesOf(files, todo)
          IN  IF \A x \in prep2 : x.kind # "DIST_CLOUD"
              THEN /\ used' = Run("prepare_s3", excl, NoName, 0, {}, {}, {}, TRUE)
                   /\ UNCHANGED prep3
              ELSE \E ref \in {x \in prep2 : x.kind = "DIST_CLOUD"} :
                   /\ used' = Run("prepare_s3", excl, NoName, ref.date,
                                  MembersOf(new), {}, new, FALSE)
                   /\ prep3' = prep3 \cup new
    /\ UNCHANGED <<raw2, raw3, prep2, temp, pvariant, changes, cvars, kvars, rvars, xvars>>

\* call_efast.py, prepare_s3: writes a temp composite of every date group,
\* then needs a REFL product for the grid, reprojects every temp composite
\* into prepared/s3 and removes the temp directory.
prepare_s3_call ==
    /\ pvariant = "call_efast"
    /\ runs < MaxRuns
    /\ runs' = runs + 1
    /\ \E o3 \in Orders(raw3) :
          LET excl == LoadClouds
              files == NotExcluded(o3, excl.s3)
              new == CompositesOf(files, GroupDates(files))
          IN  IF \A x \in prep2 : x.kind # "REFL"
              THEN /\ used' = Run("prepare_s3", excl, NoName, 0,
                                  MembersOf(new), {}, {}, TRUE)
                   /\ temp' = GroupDates(files)
                   /\ UNCHANGED prep3
              ELSE \E ref \in {x \in prep2 : x.kind = "REFL"} :
                   /\ used' = Run("prepare_s3", excl, NoName, ref.date,
                                  MembersOf(new), {}, new, FALSE)
                   /\ prep3' = {c \in prep3 : c.date \notin GroupDates(files)}
                                   \cup new
                   /\ temp' = {}
    /\ UNCHANGED <<raw2, raw3, prep2, pvariant, changes, cvars, kvars, rvars, xvars>>

\* download_s2 / download_s3: a new acquisition lands in a raw directory.
Arrive ==
    /\ changes < MaxChanges
    /\ changes' = changes + 1
    /\ \/ \E f \in S2Names \ raw2 : raw2' = raw2 \cup {f} /\ UNCHANGED raw3
       \/ \E f \in S3Names \ raw3 : raw3' = raw3 \cup {f} /\ UNCHANGED raw2
    /\ UNCHANGED <<prep2, prep3, temp, used, pvariant, runs, cvars, kvars, rvars, xvars>>

\* detect_clouds ran again and clouds.json now lists one more file.
Flag ==
    /\ changes < MaxChanges
    /\ changes' = changes + 1
    /\ \/ \E f \in raw2 \ LoadClouds.s2 :
            clouds' = [clouds EXCEPT !.exists = TRUE, !.s2 = Append(@, f)]
       \/ \E f \in raw3 \ LoadClouds.s3 :
            clouds' = [clouds EXCEPT !.exists = TRUE, !.s3 = Append(@, f)]
    /\ UNCHANGED <<ts, win, cpc, kvars, rvars, xvars>>
    /\ UNCHANGED <<raw2, raw3, prep2, prep3, temp, used, pvariant, runs>>

(***************************************************************************)
(* run_efast: the loop over the dates of date_range, one action per        *)
(* iteration and outcome.  The fusion operation is the efast package's: it *)
(* writes REFL_<date>.tif, or writes nothing, or raises.                   *)
(***************************************************************************)
\* The days a date range may span, and the calls of run_efast in a behaviour.
MaxDay == 3
MaxFusionRuns == 2

Days == 1..MaxDay

Visit(date, outcome) == [date |-> date, outcome |-> outcome]

\* run_efast up to "current_date = start_date".
run_efast_start ==
    /\ rpc \in {"idle", "returned"}
    /\ rruns < MaxFusionRuns
    /\ rruns' = rruns + 1
    /\ current_date' = range.start
    /\ visited' = <<>>
    /\ rpc' = "loop"
    /\ UNCHANGED <<rvariant, range, fusion, calls, cvars, kvars, pvars, xvars>>

InLoop == rpc = "loop" /\ current_date <= range.end

\* efast.py only: if output_file.exists(): skip the date.
SkipsExisting == rvariant = "efast" /\ fusion[current_date] > 0

run_efast_skip ==
    /\ InLoop
    /\ SkipsExisting
    /\ visited' = Append(visited, Visit(current_date, "skipped"))
    /\ current_date' = current_date + 1
    /\ UNCHANGED <<rvariant, range, fusion, calls, rpc, rruns, cvars, kvars, pvars, xvars>>

AfterErrorAbort(outcome) == IF outcome = "error" THEN "raised" ELSE "loop"

\* except Exception as e: print(...); the loop goes on.
AfterFusion(outcome) == "loop"

\* The try block around the fusion call, and current_date += 1 day.
Fusion(outcome) ==
    /\ calls' = [calls EXCEPT ![current_date] = @ + 1]
    /\ fusion' = IF outcome = "saved"
                 THEN [fusion EXCEPT ![current_date] = @ + 1]
                 ELSE fusion
    /\ visited' = Append(visited, Visit(current_date, outcome))
    /\ rpc' = AfterFusion(outcome)
    /\ current_date' = IF rpc' = "loop" THEN current_date + 1 ELSE current_date
    /\ UNCHANGED <<rvariant, range, rruns, cvars, kvars, pvars, xvars>>

\* The operation wrote the fused raster of the date.
fusion_saved ==
    /\ InLoop
    /\ ~SkipsExisting
    /\ Fusion("saved")

\* The operation wrote nothing: insufficient nearby data.
fusion_no_output ==
    /\ InLoop
    /\ ~SkipsExisting
    /\ Fusion("no_output")

\* The operation raised.
fusion_error ==
    /\ InLoop
    /\ ~SkipsExisting
    /\ Fusion("error")

\* The while condition fails: print("[EFAST] Completed") and return.
run_efast_return ==
    /\ rpc = "loop"
    /\ current_date > range.end
    /\ rpc' = "returned"
    /\ UNCHANGED <<rvariant, range, fusion, calls, visited, current_date, rruns,
                   cvars, kvars, pvars, xvars>>

(***************************************************************************)
(* process_cropped: the DIST_CLOUD file chosen for a fused date.  A date is *)
(* a day number; every date string of a file name parses.                  *)
(***************************************************************************)
\* The days a DIST_CLOUD or fused file may be of.
MaxDistDay == 4

DistDays == 1..MaxDistDay

\* sorted(keys): the dates in ascending order.
RECURSIVE Sorted(_)
Sorted(S) ==
    IF S = {} THEN <<>>
    ELSE LET lo == CHOOSE x \in S : \A y \in S : x <= y
         IN  <<lo>> \o Sorted(S \ {lo})

\* abs((d - target_date).days), both dates at midnight.
DayDistance(d, target) == Abs(d - target)

RECURSIVE MinByDistanceLast(_, _, _, _)
MinByDistanceLast(dates, target, i, best) ==
    IF i > Len(dates) THEN best
    ELSE MinByDistanceLast(dates, target, i + 1,
            IF DayDistance(dates[i], target) <= DayDistance(best, target)
            THEN dates[i] ELSE best)

\* min(dates, key=...) from element i on: the first element of least key.
RECURSIVE MinByDistance(_, _, _, _)
MinByDistance(dates, target, i, best) ==
    IF i > Len(dates) THEN best
    ELSE MinByDistance(dates, target, i + 1,
            IF DayDistance(dates[i], target) < DayDistance(best, target)
            THEN dates[i] ELSE best)

\* find_closest_dist_cloud(target_date_str)
find_closest_dist_cloud(dates, target) ==
    MinByDistance(dates, target, 2, dates[1])

\* The glob over prepared/s2 fills dist_cloud_files; without a file
\* process_cropped returns, else the dates are sorted.
collect_dist_clouds ==
    /\ npc = "start"
    /\ dist_cloud_dates' = Sorted(Range(dist_listing))
    /\ npc' = IF dist_listing = <<>> THEN "returned" ELSE "collected"
    /\ UNCHANGED <<dist_listing, target_date, dist_cloud, cvars, kvars, pvars, rvars, zvars, gvars, dvars, ivars, lvars, wvars, ovars, fvars>>

\* The fused file's own date if it has a DIST_CLOUD file, else the closest.
choose_dist_cloud ==
    /\ npc = "collected"
    /\ dist_cloud' = IF target_date \in Range(dist_listing) THEN target_date
                     ELSE find_closest_dist_cloud(dist_cloud_dates, target_date)
    /\ npc' = "found"
    /\ UNCHANGED <<dist_listing, dist_cloud_dates, target_date, cvars, kvars, pvars, rvars, zvars, gvars, dvars, ivars, lvars, wvars, ovars, fvars>>

(***************************************************************************)
(* process_cropped and _crop_to_bounds.  Rasters are north-up: a raster is *)
(* its left and top coordinates, its pixel size and its size in pixels;    *)
(* coordinates are whole numbers of fine pixels.  A fused raster also has  *)
(* its rows, each the values of the row in all bands.                      *)
(***************************************************************************)
Geometry(left, top, px, width, height) ==
    [left |-> left, top |-> top, px |-> px, width |-> width, height |-> height]

Bounds(left, bottom, right, top) ==
    [left |-> left, bottom |-> bottom, right |-> right, top |-> top]

\* src.bounds
BoundsOf(src) ==
    Bounds(src.left, src.top - src.height * src.px,
           src.left + src.width * src.px, src.top)

\* int(round(n / d)), d > 0: Python rounds a half to the even neighbour.
RoundHalfEven(n, d) ==
    LET q == n \div d
        r == n % d
    IN  IF 2 * r < d THEN q
        ELSE IF 2 * r > d THEN q + 1
        ELSE IF q % 2 = 0 THEN q ELSE q + 1

Window(col_off, row_off, width, height) ==
    [col_off |-> col_off, row_off |-> row_off, width |-> width, height |-> height]

(***************************************************************************)
(* Window.intersection of the rasterio package.  It raises WindowError for *)
(* windows that do not intersect; releases differ on a window of no area   *)
(* that lies inside the other: "lenient" ones return the empty window,     *)
(* "strict" ones raise for every intersection without area.                *)
(***************************************************************************)
WindowModes == {"lenient", "strict"}

NoWindow == Window(0, 0, -1, -1)

RangesOverlap(a0, a1, b0, b1) == ~(a0 >= b1 \/ a1 <= b0)

Intersection(w, v, mode) ==
    LET c0 == Max({w.col_off, v.col_off})
        c1 == -Max({-(w.col_off + w.width), -(v.col_off + v.width)})
        r0 == Max({w.row_off, v.row_off})
        r1 == -Max({-(w.row_off + w.height), -(v.row_off + v.height)})
        overlap ==
            /\ RangesOverlap(w.row_off, w.row_off + w.height,
                             v.row_off, v.row_off + v.height)
            /\ RangesOverlap(w.col_off, w.col_off + w.width,
                             v.col_off, v.col_off + v.width)
        raises == IF mode = "lenient" THEN ~overlap
                  ELSE ~(c1 - c0 > 0 /\ r1 - r0 > 0)
    IN  IF raises THEN NoWindow ELSE Window(c0, r0, c1 - c0, r1 - r0)

\* row_based_height=None
NoRowHeight == -1

NoBounds == Bounds(0, 0, -1, -1)

Outcome(result, bounds, width, height) ==
    [result |-> result, bounds |-> bounds, width |-> width, height |-> height]

\* The window asked for: for the fused file the rows from the top down to
\* row_based_height, else the rounded pixel window of the bounds.
AskedWindow(src, bounds, row_based_height) ==
    LET col_off == RoundHalfEven(bounds.left - src.left, src.px)
        row_off == RoundHalfEven(src.top - bounds.top, src.px)
    IN  IF row_based_height # NoRowHeight
        THEN Window(col_off, 0, src.width, row_based_height)
        ELSE Window(col_off, row_off,
                    RoundHalfEven(bounds.right - bounds.left, src.px),
                    RoundHalfEven(bounds.top - bounds.bottom, src.px))

\* bottom_y: from the row index for the fused file, else crop_bottom.
BottomY(src, bounds, row_based_height) ==
    IF row_based_height # NoRowHeight
    THEN src.top - row_based_height * src.px
    ELSE bounds.bottom

\* _crop_to_bounds(src_file, bounds, output_file, row_based_height): "saved"
\* with the bounds and size of the file written, "false", or "error" when
\* the package raises.
crop_to_bounds(src, bounds, row_based_height, mode) ==
    LET window == Intersection(AskedWindow(src, bounds, row_based_height),
                               Window(0, 0, src.width, src.height), mode)
    IN  IF window = NoWindow THEN Outcome("error", NoBounds, 0, 0)
        ELSE IF window.height <= 0 \/ window.width <= 0
             THEN Outcome("false", NoBounds, 0, 0)
        ELSE Outcome("saved",
                     Bounds(bounds.left, BottomY(src, bounds, row_based_height),
                            bounds.right, bounds.top),
                     window.width, window.height)

\* data > 0.001, False for not-a-number.
ExceedsEpsilon(v) == ~IsNaN(v) /\ v.n * 1000 > v.d

\* np.any(~np.isnan(row) & (row > 0.001))
RowIsValid(row) == \E i \in 1..Len(row) : ExceedsEpsilon(row[i])

\* The scan from the bottom row up; rows are numbered from 0 at the top, and
\* the result is the height when no row is valid.
FirstValidRow(rows) ==
    LET valid == {i \in 1..Len(rows) : RowIsValid(rows[i])}
    IN  IF valid = {} THEN Len(rows) ELSE Max(valid) - 1

\* (fusion_src.transform * (0, first_valid_row + 1))[1]
ValidBottomY(fused) == fused.top - (FirstValidRow(fused.rows) + 1) * fused.px

\* crop_bottom = max(dist_bounds.bottom, valid_bottom_y)
CropBottom(dist_bounds, fused) == Max({dist_bounds.bottom, ValidBottomY(fused)})

\* fusion_bounds[date_str]
FusionBounds(dist_bounds, fused) ==
    Bounds(dist_bounds.left, CropBottom(dist_bounds, fused),
           dist_bounds.right, dist_bounds.top)

\* The dates process_cropped may find files of.
MaxCropDay == 2

CropDates == 1..MaxCropDay

Kinds == {"s2", "s3", "fusion"}

NoRaster == Geometry(0, 0, 0, 0, 0)

Fused(geometry, rows) == [geometry |-> geometry, rows |-> rows]

NoFused == Fused(NoRaster, <<>>)

NoOutcome == Outcome("none", NoBounds, 0, 0)

DatesOf(files, none) == {d \in CropDates : files[d] # none}

\* The DIST_CLOUD file for a fused date: its own, else the closest.
DistCloudFor(date) ==
    IF dist_cloud_files[date] # NoBounds THEN date
    ELSE find_closest_dist_cloud(Sorted(DatesOf(dist_cloud_files, NoBounds)), date)

\* Lines 70-84: without a DIST_CLOUD file process_cropped returns.
crop_collect ==
    /\ zpc = "start"
    /\ IF DatesOf(dist_cloud_files, NoBounds) = {}
       THEN zpc' = "returned" /\ UNCHANGED ztodo
       ELSE zpc' = "bounds" /\ ztodo' = DatesOf(fused_files, NoFused)
    /\ UNCHANGED <<zinputs, fusion_bounds, fusion_rows, chosen, processed, cropped>>
    /\ UNCHANGED <<cvars, kvars, pvars, rvars, nvars, gvars, dvars, ivars, lvars, wvars, ovars, fvars>>

\* One iteration of the loop over prepared/fusion, lines 101-132.
crop_bounds ==
    /\ zpc = "bounds"
    /\ \E d \in ztodo :
          LET dc == DistCloudFor(d)
              fused == fused_files[d]
              raster == [fused.geometry EXCEPT !.height = Len(fused.rows)]
              withRows == [top |-> raster.top, px |-> raster.px, rows |-> fused.rows]
          IN  /\ chosen' = [chosen EXCEPT ![d] = dc]
              /\ fusion_bounds' = [fusion_bounds EXCEPT
                                      ![d] = FusionBounds(dist_cloud_files[dc], withRows)]
              /\ fusion_rows' = [fusion_rows EXCEPT ![d] = FirstValidRow(fused.rows)]
              /\ ztodo' = ztodo \ {d}
    /\ UNCHANGED <<zinputs, processed, cropped, zpc>>
    /\ UNCHANGED <<cvars, kvars, pvars, rvars, nvars, gvars, dvars, ivars, lvars, wvars, ovars, fvars>>

\* A loop has visited all its files: the next loop starts, or "Completed".
crop_next_loop ==
    /\ ztodo = {}
    /\ \/ zpc = "bounds" /\ zpc' = "s2" /\ ztodo' = DatesOf(refl_files, NoRaster)
       \/ zpc = "s2" /\ zpc' = "s3" /\ ztodo' = DatesOf(composite_files, NoRaster)
       \/ zpc = "s3" /\ zpc' = "fusion" /\ ztodo' = DatesOf(fusion_bounds, NoBounds)
       \/ zpc = "fusion" /\ zpc' = "done" /\ ztodo' = {}
    /\ UNCHANGED <<zinputs, fusion_bounds, fusion_rows, chosen, processed, cropped>>
    /\ UNCHANGED <<cvars, kvars, pvars, rvars, nvars, gvars, dvars, ivars, lvars, wvars, ovars, fvars>>

Call(kind, date, result) == [kind |-> kind, date |-> date, result |-> result]

CropOneAlways(kind, d, src, row_based_height) ==
    LET bounds == IF fusion_bounds[d] = NoBounds THEN BoundsOf(src) ELSE fusion_bounds[d]
        out == crop_to_bounds(src, bounds, row_based_height, windowMode)
    IN  /\ cropped' = cropped \cup {Call(kind, d, out.result)}
        /\ processed' = IF out.result = "saved"
                        THEN [processed EXCEPT ![kind][d] = out]
                        ELSE processed
        /\ zpc' = IF out.result = "error" THEN "raised" ELSE zpc
        /\ ztodo' = ztodo \ {d}

\* if date_str in fusion_bounds: if _crop_to_bounds(...): print("Saved")
CropOne(kind, d, src, row_based_height) ==
    IF fusion_bounds[d] = NoBounds
    THEN /\ ztodo' = ztodo \ {d}
         /\ UNCHANGED <<processed, cropped, zpc>>
    ELSE LET out == crop_to_bounds(src, fusion_bounds[d], row_based_height, windowMode)
         IN  /\ cropped' = cropped \cup {Call(kind, d, out.result)}
             /\ processed' = IF out.result = "saved"
                             THEN [processed EXCEPT ![kind][d] = out]
                             ELSE processed
             /\ zpc' = IF out.result = "error" THEN "raised" ELSE zpc
             /\ ztodo' = ztodo \ {d}

\* One iteration of the loop over prepared/s2's REFL files, lines 135-140.
crop_s2 ==
    /\ zpc = "s2"
    /\ \E d \in ztodo : CropOne("s2", d, refl_files[d], NoRowHeight)
    /\ UNCHANGED <<zinputs, fusion_bounds, fusion_rows, chosen>>
    /\ UNCHANGED <<cvars, kvars, pvars, rvars, nvars, gvars, dvars, ivars, lvars, wvars, ovars, fvars>>

\* One iteration of the loop over prepared/s3's composites, lines 143-148.
crop_s3 ==
    /\ zpc = "s3"
    /\ \E d \in ztodo : CropOne("s3", d, composite_files[d], NoRowHeight)
    /\ UNCHANGED <<zinputs, fusion_bounds, fusion_rows, chosen>>
    /\ UNCHANGED <<cvars, kvars, pvars, rvars, nvars, gvars, dvars, ivars, lvars, wvars, ovars, fvars>>

\* One iteration of the loop over fusion_bounds, lines 151-156.
crop_fusion ==
    /\ zpc = "fusion"
    /\ \E d \in ztodo :
          CropOne("fusion", d,
                  [fused_files[d].geometry EXCEPT !.height = Len(fused_files[d].rows)],
                  fusion_rows[d] + 1)
    /\ UNCHANGED <<zinputs, fusion_bounds, fusion_rows, chosen>>
    /\ UNCHANGED <<cvars, kvars, pvars, rvars, nvars, gvars, dvars, ivars, lvars, wvars, ovars, fvars>>

(***************************************************************************)
(* The sizes of the fine and the coarse grid.  The reference raster has    *)
(* width x height pixels of size dx x dy; extents and pixel sizes are      *)
(* floats in the code and exact here, the rounding of a float quotient     *)
(* being a choice: the exact value, or the nearest float below it.         *)
(***************************************************************************)
RESOLUTION_RATIO == 21

\* The sizes, in pixels and of a pixel, a reference raster may have.
MaxSize == 3
MaxPixel == 2

Size(width, height) == [width |-> width, height |-> height]

NoSize == Size(0, 0)

FloatErrors == {"exact", "below"}

\* s2_width = s3_ref.width * RESOLUTION_RATIO, and so the height.
FineSize(ref) == Size(ref.width * RESOLUTION_RATIO, ref.height * RESOLUTION_RATIO)

\* int(n / d) of floats, n >= 0, d > 0: truncation of the rounded quotient.
IntOfQuotient(n, d, err) ==
    IF err = "below" /\ n % d = 0 /\ n > 0 THEN n \div d - 1 ELSE n \div d

\* call_efast.py, prepare_s3: the REFL product has the reference's bounds and
\* fine.width columns, so s2_resolution = ref.width * dx / fine.width (times
\* 1 / RESOLUTION_RATIO in units of dx / RESOLUTION_RATIO), s3_resolution is
\* RESOLUTION_RATIO times that, and width and height are the truncated
\* quotients of the extents by s3_resolution.
CoarseSizeCall(ref, fine, err) ==
    LET extent_x == ref.width * ref.dx
        extent_y == ref.height * ref.dy
    IN  Size(IntOfQuotient(extent_x * fine.width,
                           extent_x * RESOLUTION_RATIO, err),
             IntOfQuotient(extent_y * fine.width,
                           extent_x * RESOLUTION_RATIO, err))

\* efast.py, prepare_s3: the profile of a DIST_CLOUD product, which
\* prepare_s2 wrote with s3_width and s3_height.
CoarseSizeEfast(ref, fine, err) == Size(ref.width, ref.height)

\* prepare_s2 of either module, as far as the grid goes.
grid_prepare_s2 ==
    /\ gpc = "start"
    /\ refl_size' = FineSize(s3_ref)
    /\ gpc' = "s2"
    /\ UNCHANGED <<s3_ref, floatError, gvariant, coarse_size>>
    /\ UNCHANGED <<cvars, kvars, pvars, rvars, nvars, zvars, dvars, ivars, lvars, wvars, ovars, fvars>>

grid_prepare_s3_efast ==
    /\ gpc = "s2"
    /\ gvariant' = "efast"
    /\ coarse_size' = CoarseSizeEfast(s3_ref, refl_size, floatError)
    /\ gpc' = "s3"
    /\ UNCHANGED <<s3_ref, floatError, refl_size>>
    /\ UNCHANGED <<cvars, kvars, pvars, rvars, nvars, zvars, dvars, ivars, lvars, wvars, ovars, fvars>>

grid_prepare_s3_call ==
    /\ gpc = "s2"
    /\ gvariant' = "call_efast"
    /\ coarse_size' = CoarseSizeCall(s3_ref, refl_size, floatError)
    /\ gpc' = "s3"
    /\ UNCHANGED <<s3_ref, floatError, refl_size>>
    /\ UNCHANGED <<cvars, kvars, pvars, rvars, nvars, zvars, dvars, ivars, lvars, wvars, ovars, fvars>>

(***************************************************************************)
(* The DIST_CLOUD product of efast.py's prepare_s2, over a block of 5 x 5   *)
(* fine pixels under one coarse pixel.  Distances are float32 in the code  *)
(* and hundredths of a pixel, rounded down, here.                          *)
(***************************************************************************)
Block == (1..5) \X (1..5)

\* The invalid pixels a block may have, unless it has only invalid ones.
MaxInvalid == 2

\* mask = s2_hr == 0; a comparison with not-a-number is False.
IsZero(v) == ~IsNaN(v) /\ v.n = 0

\* The largest r with r * r <= x, searched between lo and hi.
RECURSIVE SqrtBetween(_, _, _)
SqrtBetween(x, lo, hi) ==
    IF lo = hi THEN lo
    ELSE LET mid == (lo + hi + 1) \div 2
         IN  IF mid * mid <= x THEN SqrtBetween(x, mid, hi)
             ELSE SqrtBetween(x, lo, mid - 1)

\* The Euclidean distance between two pixels, in hundredths.
Euclidean(p, q) ==
    SqrtBetween(10000 * ((p[1] - q[1]) * (p[1] - q[1]) + (p[2] - q[2]) * (p[2] - q[2])),
                0, 1000)

\* ndimage.distance_transform_edt(input): for a pixel where input is False
\* 0, else the distance to the nearest pixel where it is False; without
\* such a pixel the result is the package's, an input of the model.
DistanceTransformEdt(input, none) ==
    LET background == {q \in Block : ~input[q]}
    IN  [p \in Block |->
            IF background = {} THEN none
            ELSE -Max({-Euclidean(p, q) : q \in background})]

NoClip(x) == x

\* np.clip(x, 0, 255)
Clip(x) == IF x < 0 THEN 0 ELSE IF x > 25500 THEN 25500 ELSE x

DistanceToCloudOfInvalid(band) ==
    LET mask == [p \in Block |-> IsZero(band[p])]
        edt == DistanceTransformEdt(mask, noBackground)
    IN  [p \in Block |-> Clip(edt[p])]

\* Lines 126-130: the distance transform of ~mask, clipped.
DistanceToCloudHr(band) ==
    LET mask == [p \in Block |-> IsZero(band[p])]
        edt == DistanceTransformEdt([p \in Block |-> ~mask[p]], noBackground)
    IN  [p \in Block |-> Clip(edt[p])]

RECURSIVE SumOver(_, _)
SumOver(f, S) ==
    IF S = {} THEN 0
    ELSE LET p == CHOOSE x \in S : TRUE IN f[p] + SumOver(f, S \ {p})

\* Resampling.average onto the coarse grid: the mean over the block.
AreaAverage(field) == Frac(SumOver(field, Block), Cardinality(Block))

dist_cloud_hr ==
    /\ dpc = "start"
    /\ distance_to_cloud_hr' = DistanceToCloudHr(s2_hr)
    /\ dpc' = "hr"
    /\ UNCHANGED <<s2_hr, noBackground, distance_to_cloud_lr>>
    /\ UNCHANGED <<cvars, kvars, pvars, rvars, nvars, zvars, gvars, ivars, lvars, wvars, ovars, fvars>>

dist_cloud_lr ==
    /\ dpc = "hr"
    /\ distance_to_cloud_lr' = AreaAverage(distance_to_cloud_hr)
    /\ dpc' = "lr"
    /\ UNCHANGED <<s2_hr, noBackground, distance_to_cloud_hr>>
    /\ UNCHANGED <<cvars, kvars, pvars, rvars, nvars, zvars, gvars, ivars, lvars, wvars, ovars, fvars>>

(***************************************************************************)
(* Work units of different dates, interleaved: two runs of call_efast.py's *)
(* prepare_s3 over disjoint sets of dates, and the per-date units of       *)
(* efast.py's prepare_s2 and of process_cropped.  A step is one loop       *)
(* iteration or one directory operation; a path is <<directory, date>>,    *)
(* date 0 naming the directory itself.                                     *)
(***************************************************************************)
MaxUnitDay == 2
UnitDays == 1..MaxUnitDay
Runs == {"A", "B"}

TempDir == <<"prepared/s3/temp_composites", 0>>
TempFile(d) == <<"prepared/s3/temp_composites", d>>
Paths ==
    {"prepared/s3/temp_composites", "prepared/s3", "prepared/s2/REFL",
     "prepared/s2/DIST_CLOUD", "processed/s2", "processed/s3", "processed/fusion"}
        \X (0..MaxUnitDay)

RunUnit(r) == <<"prepare_s3", r>>
\* touched after unit u wrote or deleted the paths P.
Touch(P, u) == [q \in Paths |-> IF q \in P THEN touched[q] \cup {u} ELSE touched[q]]

\* shutil.rmtree deletes the directory and every file in it.
TreeOfTemp == {TempDir} \cup {TempFile(d) : d \in temp_files}

\* call_efast.py 128-131: a directory left there is removed, then one made.
s3_setup(r) ==
    /\ ipc[r] = "start"
    /\ temp_exists' = TRUE
    /\ temp_files' = {}
    /\ touched' = Touch(IF temp_exists THEN TreeOfTemp ELSE {TempDir}, RunUnit(r))
    /\ ipc' = [ipc EXCEPT ![r] = "compose"]
    /\ UNCHANGED <<s3_by_date, itodo, sen3_paths, s3_out, s2_done, crop_done>>
    /\ UNCHANGED <<cvars, kvars, pvars, rvars, nvars, zvars, gvars, dvars, lvars, wvars, ovars, fvars>>

\* 133-149: the temporary composite of one date group is written; writing
\* into a directory that is not there raises.
s3_compose(r) ==
    /\ ipc[r] = "compose"
    /\ \E d \in itodo[r] :
          IF temp_exists
          THEN /\ temp_files' = temp_files \cup {d}
               /\ touched' = Touch({TempFile(d)}, RunUnit(r))
               /\ itodo' = [itodo EXCEPT ![r] = @ \ {d}]
               /\ UNCHANGED ipc
          ELSE /\ ipc' = [ipc EXCEPT ![r] = "error"]
               /\ UNCHANGED <<temp_files, touched, itodo>>
    /\ UNCHANGED <<s3_by_date, temp_exists, sen3_paths, s3_out, s2_done, crop_done>>
    /\ UNCHANGED <<cvars, kvars, pvars, rvars, nvars, zvars, gvars, dvars, lvars, wvars, ovars, fvars>>

\* 175: the temporary composites are listed, whoever wrote them.
s3_glob(r) ==
    /\ ipc[r] = "compose"
    /\ itodo[r] = {}
    /\ sen3_paths' = [sen3_paths EXCEPT ![r] = IF temp_exists THEN temp_files ELSE {}]
    /\ ipc' = [ipc EXCEPT ![r] = "reproject"]
    /\ UNCHANGED <<s3_by_date, temp_exists, temp_files, itodo, s3_out, s2_done,
                   crop_done, touched>>
    /\ UNCHANGED <<cvars, kvars, pvars, rvars, nvars, zvars, gvars, dvars, lvars, wvars, ovars, fvars>>

\* 176-190: one listed composite is opened and written, reprojected, to
\* prepared/s3; opening a file that is not there raises.
s3_reproject(r) ==
    /\ ipc[r] = "reproject"
    /\ \E d \in sen3_paths[r] :
          IF temp_exists /\ d \in temp_files
          THEN /\ s3_out' = s3_out \cup {d}
               /\ touched' = Touch({<<"prepared/s3", d>>}, RunUnit(r))
               /\ sen3_paths' = [sen3_paths EXCEPT ![r] = @ \ {d}]
               /\ UNCHANGED ipc
          ELSE /\ ipc' = [ipc EXCEPT ![r] = "error"]
               /\ UNCHANGED <<s3_out, touched, sen3_paths>>
    /\ UNCHANGED <<s3_by_date, temp_exists, temp_files, itodo, s2_done, crop_done>>
    /\ UNCHANGED <<cvars, kvars, pvars, rvars, nvars, zvars, gvars, dvars, lvars, wvars, ovars, fvars>>

\* 192: the temporary directory is removed; removing one that is not there
\* raises.
s3_cleanup(r) ==
    /\ ipc[r] = "reproject"
    /\ sen3_paths[r] = {}
    /\ IF temp_exists
       THEN /\ temp_exists' = FALSE
            /\ temp_files' = {}
            /\ touched' = Touch(TreeOfTemp, RunUnit(r))
            /\ ipc' = [ipc EXCEPT ![r] = "done"]
       ELSE /\ ipc' = [ipc EXCEPT ![r] = "error"]
            /\ UNCHANGED <<temp_exists, temp_files, touched>>
    /\ UNCHANGED <<s3_by_date, itodo, sen3_paths, s3_out, s2_done, crop_done>>
    /\ UNCHANGED <<cvars, kvars, pvars, rvars, nvars, zvars, gvars, dvars, lvars, wvars, ovars, fvars>>

\* efast.py 90-155: the unit of one date writes the REFL and the DIST_CLOUD
\* file of that date.
unit_prepare_s2 ==
    /\ \E d \in UnitDays \ s2_done :
          /\ s2_done' = s2_done \cup {d}
          /\ touched' = Touch({<<"prepared/s2/REFL", d>>, <<"prepared/s2/DIST_CLOUD", d>>},
                              <<"prepare_s2", d>>)
    /\ UNCHANGED <<s3_by_date, temp_exists, temp_files, itodo, sen3_paths, ipc,
                   s3_out, crop_done>>
    /\ UNCHANGED <<cvars, kvars, pvars, rvars, nvars, zvars, gvars, dvars, lvars, wvars, ovars, fvars>>

\* post_process.py 134-156: the unit of one date writes the three cropped
\* files of that date.
unit_process_cropped ==
    /\ \E d \in UnitDays \ crop_done :
          /\ crop_done' = crop_done \cup {d}
          /\ touched' = Touch({<<"processed/s2", d>>, <<"processed/s3", d>>,
                               <<"processed/fusion", d>>}, <<"process_cropped", d>>)
    /\ UNCHANGED <<s3_by_date, temp_exists, temp_files, itodo, sen3_paths, ipc,
                   s3_out, s2_done>>
    /\ UNCHANGED <<cvars, kvars, pvars, rvars, nvars, zvars, gvars, dvars, lvars, wvars, ovars, fvars>>

(***************************************************************************)
(* run_pipeline (run.py): the stages that are not commented out, called    *)
(* one after the other inside one try block whose handler prints and       *)
(* raises again.  What a stage does to its files is modelled elsewhere;    *)
(* here a stage returns or raises.                                         *)
(***************************************************************************)
MaxPipeDay == 3
PipeDays == 1..MaxPipeDay

Stages ==
    <<"process_cropped", "generate_ndvi_post_process",
      "create_ndvi_timeseries_post_process">>

\* The stage called after stage number i, or the return of run_pipeline.
After(i) == IF i < Len(Stages) THEN Stages[i + 1] ELSE "returned"

\* One call of run_pipeline's try block: an exception of the stage reaches
\* the handler of lines 42-44, which raises it again.
CallStage(i) ==
    /\ lpc = Stages[i]
    /\ executed' = Append(executed, Stages[i])
    /\ lpc' = IF stage_raises[Stages[i]] THEN "raised" ELSE After(i)

\* run.py 37 with post_process.py 80-82: without DIST_CLOUD file the stage
\* prints a warning and returns.
call_process_cropped ==
    /\ CallStage(1)
    /\ warned' = (~stage_raises[Stages[1]] /\ pipe_dist_clouds = {})
    /\ UNCHANGED <<pipe_dist_clouds, stage_raises>>
    /\ UNCHANGED <<cvars, kvars, pvars, rvars, nvars, zvars, gvars, dvars, ivars, wvars, ovars, fvars>>

\* run.py 39
call_generate_ndvi_post_process ==
    /\ CallStage(2)
    /\ UNCHANGED <<pipe_dist_clouds, stage_raises, warned>>
    /\ UNCHANGED <<cvars, kvars, pvars, rvars, nvars, zvars, gvars, dvars, ivars, wvars, ovars, fvars>>

\* run.py 40
call_create_ndvi_timeseries_post_process ==
    /\ CallStage(3)
    /\ UNCHANGED <<pipe_dist_clouds, stage_raises, warned>>
    /\ UNCHANGED <<cvars, kvars, pvars, rvars, nvars, zvars, gvars, dvars, ivars, wvars, ovars, fvars>>

(***************************************************************************)
(* The window test of detect_clouds (clouds.py 34-39) on two entries, each *)
(* one tested against the other as the loop over the entries does.         *)
(***************************************************************************)
MaxTick == 31
Ticks == 0..MaxTick

window_test ==
    /\ wpc = "start"
    /\ in_window' = <<InWindow(w_other, w_entry), InWindow(w_entry, w_other)>>
    /\ wpc' = "done"
    /\ UNCHANGED <<w_entry, w_other>>
    /\ UNCHANGED <<cvars, kvars, pvars, rvars, nvars, zvars, gvars, dvars, ivars, lvars, ovars, fvars>>

(***************************************************************************)
(* prepare_s2 followed by prepare_s3, run twice from empty prepared        *)
(* directories on the same raw files, each run with its own listing        *)
(* orders.                                                                 *)
(***************************************************************************)
\* The grids the coarse acquisitions may have.
MaxGrids == 2
Grids == 1..MaxGrids

TwoRuns == {1, 2}

NoOutput == [raised |-> FALSE, grid |-> 0, refl |-> {}, composites |-> {}]

\* What prepare_s2 and prepare_s3 leave: the grid of s3_files[0], that all
\* products are put on; for each date the raw file its REFL product is made
\* from; for each date the members of its composite, a mean over them.
Prepared(s2_listing, s3_listing, module) ==
    LET excl == LoadClouds
        s3_files == NotExcluded(s3_listing, excl.s3)
        s2_files == NotExcluded(s2_listing, excl.s2)
        empty == [dir |-> {}, read |-> {}, wrote |-> {}]
        st == IF module = "efast" THEN S2LoopEfast(s2_files, 1, empty)
              ELSE DistanceToClouds(S2LoopCall(s2_files, 1, empty))
        refl == {x \in st.dir : x.kind = "REFL"}
    IN  IF s3_files = <<>> \/ refl = {}
        THEN [NoOutput EXCEPT !.raised = TRUE]
        ELSE [raised |-> FALSE,
              grid |-> o_grid[s3_files[1]],
              refl |-> {<<x.date, x.src>> : x \in refl},
              composites |-> {<<c.date, Range(c.members)>> :
                                 c \in CompositesOf(s3_files, GroupDates(s3_files))}]

order_run ==
    /\ \E r \in TwoRuns \ o_done :
          /\ o_out' = [o_out EXCEPT ![r] = Prepared(o_list[r].s2, o_list[r].s3, ovariant)]
          /\ o_done' = o_done \cup {r}
    /\ UNCHANGED <<o_raw2, o_raw3, o_grid, o_list, ovariant>>
    /\ UNCHANGED <<cvars, kvars, pvars, rvars, nvars, zvars, gvars, dvars, ivars, lvars, wvars, fvars>>

(***************************************************************************)
(* The rasters of a date group: every one has finite values (the coarse    *)
(* sensor's reflectances as download_s3 stacks them).                      *)
(***************************************************************************)
MaxMembers == 2

Px(b1, b2) ==
    <<[p \in Pixels |-> Num(b1[p])], [p \in Pixels |-> Num(b2[p])]>>

\* Band means 2, 2: no outlier.
Clean == Px(<<1, 2>>, <<3, 2>>)
Clean2 == Px(<<2, 4>>, <<2, 0>>)
\* Mean exactly 5 at pixel 1 as read; 3 and 1 once resampled.
Edge5 == Px(<<4, 1>>, <<6, 1>>)
\* Mean exactly 5 at pixel 2, as read and once resampled.
Out2 == Px(<<1, 6>>, <<1, 4>>)
\* An outlier at every pixel, as read and once resampled.
AllOut == Px(<<6, 8>>, <<6, 8>>)
AllNeg == Px(<<-6, -4>>, <<-4, -6>>)
\* An outlier at every pixel as read; mean 0 at pixel 1 once resampled.
Flip == Px(<<8, -8>>, <<8, -8>>)

Rasters == {Clean, Clean2, Edge5, Out2, AllOut, AllNeg, Flip}

NoPx == Px(<<0, 0>>, <<0, 0>>)

TsFile(exists, data) == [exists |-> exists, data |-> data]

(***************************************************************************)
(* The directories the download stages write and the directories the NDVI  *)
(* stage and prepare_s2 read, for one site and one season.  A directory is *)
(* the sequence of the components of its path, a file a directory and a    *)
(* name.                                                                   *)
(***************************************************************************)
MaxFileDay == 2
FileDays == 1..MaxFileDay
Sites == {"a", "b"}
Seasons == {"2024", "2025"}
\* The keys (date, increment) a search may find.
Items == {<<day, 0>> : day \in FileDays}

File(dir, name) == [dir |-> dir, name |-> name]

\* download_s2.py 13: f"data/{site_name}/{year}/s2/"
S2OutputDir(site_name, year) == <<"data", site_name, year, "s2">>

\* download_s3.py 79: f"data/{site_name}/{season}/raw/s3/"
S3OutputDir(site_name, season) == <<"data", site_name, season, "raw", "s3">>

\* ndvi.py 153, efast.py 69-70, call_efast.py 71-72:
\* f"data/{site_name}/{season}/raw/{source}/"
RawDir(site_name, season, source) == <<"data", site_name, season, "raw", source>>

\* ndvi.py 154: f"data/{site_name}/{season}/raw/ndvi/{source}/"
RawNdviDir(site_name, season, source) ==
    <<"data", site_name, season, "raw", "ndvi", source>>

\* dir.glob("*.geotiff"): the files directly in dir.
GlobGeotiff(tree, dir) == {f \in tree : f.dir = dir}

\* download_s2.py 48-52 and download_s3.py 57: one file
\* {date}_{increment}.geotiff for each key, in the output directory.
Download(dir, keys) == {File(dir, key) : key \in keys}

download_s2 ==
    /\ fpc = "download_s2"
    /\ LET new == Download(S2OutputDir(f_site, f_season), f_items["s2"])
       IN  /\ f_tree' = f_tree \cup new
           /\ f_written' = [f_written EXCEPT !["s2"] = new]
    /\ fpc' = "download_s3"
    /\ UNCHANGED <<f_site, f_season, f_items, f_clouds, f_refl>>
    /\ UNCHANGED <<cvars, kvars, pvars, rvars, nvars, zvars, gvars, dvars, ivars, lvars, wvars, ovars>>

download_s3 ==
    /\ fpc = "download_s3"
    /\ LET new == Download(S3OutputDir(f_site, f_season), f_items["s3"])
       IN  /\ f_tree' = f_tree \cup new
           /\ f_written' = [f_written EXCEPT !["s3"] = new]
    /\ fpc' = "generate_ndvi_raw"
    /\ UNCHANGED <<f_site, f_season, f_items, f_clouds, f_refl>>
    /\ UNCHANGED <<cvars, kvars, pvars, rvars, nvars, zvars, gvars, dvars, ivars, lvars, wvars, ovars>>

\* ndvi.py 151-155 with 117-148: an NDVI raster of the same name for every
\* file of raw/{source}.
generate_ndvi_raw ==
    /\ fpc = "generate_ndvi_raw"
    /\ f_tree' = f_tree \cup
           UNION {{File(RawNdviDir(f_site, f_season, source), f.name) :
                      f \in GlobGeotiff(f_tree, RawDir(f_site, f_season, source))} :
                  source \in Sources}
    /\ fpc' = "prepare_s2"
    /\ UNCHANGED <<f_site, f_season, f_items, f_clouds, f_written, f_refl>>
    /\ UNCHANGED <<cvars, kvars, pvars, rvars, nvars, zvars, gvars, dvars, ivars, lvars, wvars, ovars>>

\* efast.py 68-97 (call_efast.py 70-95): the reference is a non-excluded
\* file of raw/s3, and a REFL product is made for the date of every
\* non-excluded file of raw/s2.
files_prepare_s2 ==
    /\ fpc = "prepare_s2"
    /\ LET s2_dir == RawDir(f_site, f_season, "s2")
           s3_dir == RawDir(f_site, f_season, "s3")
           s3_files == {f \in GlobGeotiff(f_tree, s3_dir) : f.name \notin f_clouds["s3"]}
       IN  IF s3_files = {}
           THEN /\ fpc' = "raised"
                /\ f_refl' = f_refl
           ELSE /\ fpc' = "done"
                /\ f_refl' = f_refl \cup
                       {DateOf(f.name) : f \in {g \in GlobGeotiff(f_tree, s2_dir) :
                                                   g.name \notin f_clouds["s2"]}}
    /\ UNCHANGED <<f_site, f_season, f_items, f_clouds, f_tree, f_written>>
    /\ UNCHANGED <<cvars, kvars, pvars, rvars, nvars, zvars, gvars, dvars, ivars, lvars, wvars, ovars>>

(***************************************************************************)
(* A stage that is not part of a specification stays in its idle state.    *)
(***************************************************************************)
IdleClouds ==
    /\ ts = [x \in Sources |-> TsFile(FALSE, <<>>)]
    /\ clouds = [exists |-> FALSE, s2 |-> <<>>, s3 |-> <<>>]
    /\ win = [s \in Sources |-> <<>>]
    /\ cpc = "start"

IdleComposite ==
    /\ group = <<>>
    /\ variant = "none"
    /\ nanMode = "propagate"
    /\ composite = [exists |-> FALSE, px |-> NoPx]
    /\ kpc = "start"

IdleFusion ==
    /\ rvariant = "efast"
    /\ range = [start |-> 1, end |-> 1]
    /\ fusion = [d \in Days |-> 0]
    /\ calls = [d \in Days |-> 0]
    /\ visited = <<>>
    /\ current_date = 1
    /\ rpc = "idle"
    /\ rruns = 0

IdleNearest ==
    /\ dist_listing = <<>>
    /\ dist_cloud_dates = <<>>
    /\ target_date = 1
    /\ dist_cloud = 0
    /\ npc = "start"

IdleCrop ==
    /\ windowMode = "lenient"
    /\ dist_cloud_files = [d \in CropDates |-> NoBounds]
    /\ refl_files = [d \in CropDates |-> NoRaster]
    /\ composite_files = [d \in CropDates |-> NoRaster]
    /\ fused_files = [d \in CropDates |-> NoFused]
    /\ fusion_bounds = [d \in CropDates |-> NoBounds]
    /\ fusion_rows = [d \in CropDates |-> 0]
    /\ chosen = [d \in CropDates |-> 0]
    /\ processed = [k \in Kinds |-> [d \in CropDates |-> NoOutcome]]
    /\ cropped = {}
    /\ ztodo = {}
    /\ zpc = "start"

IdleGrid ==
    /\ s3_ref = [width |-> 1, height |-> 1, dx |-> 1, dy |-> 1]
    /\ floatError = "exact"
    /\ gvariant = "none"
    /\ refl_size = NoSize
    /\ coarse_size = NoSize
    /\ gpc = "start"

IdleDistance ==
    /\ s2_hr = [p \in Block |-> Num(0)]
    /\ noBackground = 0
    /\ distance_to_cloud_hr = [p \in Block |-> 0]
    /\ distance_to_cloud_lr = Num(0)
    /\ dpc = "start"

IdleInterleave ==
    /\ s3_by_date = [r \in Runs |-> {}]
    /\ temp_exists = FALSE
    /\ temp_files = {}
    /\ itodo = [r \in Runs |-> {}]
    /\ sen3_paths = [r \in Runs |-> {}]
    /\ ipc = [r \in Runs |-> "start"]
    /\ s3_out = {}
    /\ s2_done = {}
    /\ crop_done = {}
    /\ touched = [q \in Paths |-> {}]

IdlePipeline ==
    /\ pipe_dist_clouds = {}
    /\ stage_raises = [st \in Range(Stages) |-> FALSE]
    /\ executed = <<>>
    /\ warned = FALSE
    /\ lpc = Stages[1]

IdleWindow ==
    /\ w_entry = 0
    /\ w_other = 0
    /\ in_window = <<FALSE, FALSE>>
    /\ wpc = "start"

IdleOrder ==
    /\ o_raw2 = {}
    /\ o_raw3 = {}
    /\ o_grid = [f \in S3Names |-> 1]
    /\ o_list = [r \in TwoRuns |-> [s2 |-> <<>>, s3 |-> <<>>]]
    /\ ovariant = "efast"
    /\ o_out = [r \in TwoRuns |-> NoOutput]
    /\ o_done = {}

IdleFiles ==
    /\ f_site = "a"
    /\ f_season = "2024"
    /\ f_items = [src \in Sources |-> {}]
    /\ f_clouds = [src \in Sources |-> {}]
    /\ f_tree = {}
    /\ f_written = [src \in Sources |-> {}]
    /\ f_refl = {}
    /\ fpc = "download_s2"

IdlePost ==
    /\ IdleNearest /\ IdleCrop /\ IdleGrid /\ IdleDistance /\ IdleInterleave
    /\ IdlePipeline /\ IdleWindow /\ IdleOrder /\ IdleFiles

IdlePrepare ==
    /\ raw2 = {}
    /\ raw3 = {}
    /\ prep2 = {}
    /\ prep3 = {}
    /\ temp = {}
    /\ used = Run("none", [s2 |-> {}, s3 |-> {}], NoName, 0, {}, {}, {}, FALSE)
    /\ pvariant = "efast"
    /\ runs = 0
    /\ changes = 0

(***************************************************************************)
(* The prepared directories process_cropped may find.  The fine grid has   *)
(* pixel size 1 and its bottom-left corner at the origin; the coarse grid  *)
(* covers it with pixels of CoarsePx fine pixels (the resolution ratio,    *)
(* scaled down).                                                           *)
(***************************************************************************)
MaxRows == 4
CoarsePx == 2

FineGrid == Geometry(0, MaxRows, 1, CoarsePx, MaxRows)

CoarseGrid ==
    Geometry(0, MaxRows, CoarsePx, 1, (MaxRows + CoarsePx - 1) \div CoarsePx)

\* The values of a row: one above 0.001; all missing; none above 0.001;
\* one of magnitude above 0.001, negative.
ValidRow == <<Frac(1, 2), NaN>>
MissingRow == <<NaN, NaN>>
TinyRow == <<Num(0), Frac(1, 1000)>>
NegativeRow == <<Frac(-1, 2), NaN>>

\* Fused rasters: the k rows from the top valid, the rows below of one kind.
FusedRasters ==
    {Fused(FineGrid, [i \in 1..MaxRows |-> IF i <= k THEN ValidRow ELSE r]) :
        k \in 0..MaxRows, r \in {MissingRow, TinyRow, NegativeRow}}

AllValid == Fused(FineGrid, [i \in 1..MaxRows |-> ValidRow])

\* The extents a DIST_CLOUD file may have: the grid's, or one cut at the
\* bottom or at the top.
FullBounds == BoundsOf(FineGrid)

DistBounds ==
    {Bounds(0, b, CoarsePx, t) : b \in {0, 1}, t \in {MaxRows, MaxRows - CoarsePx}}

InitCrop ==
    /\ IdleFiles
    /\ IdleOrder
    /\ IdleWindow
    /\ IdlePipeline
    /\ IdleInterleave
    /\ IdleDistance
    /\ IdleGrid
    /\ IdleClouds
    /\ IdleComposite
    /\ IdlePrepare
    /\ IdleFusion
    /\ IdleNearest
    /\ windowMode \in WindowModes
    /\ dist_cloud_files \in
          {f \in [CropDates -> DistBounds \cup {NoBounds, FullBounds}] :
              \A d \in CropDates : d > 1 => f[d] \in {NoBounds, FullBounds}}
    /\ fused_files \in
          {f \in [CropDates -> FusedRasters \cup {NoFused}] :
              /\ f[1] # NoFused
              /\ \A d \in CropDates : d > 1 => f[d] \in {NoFused, AllValid}}
    /\ refl_files \in
          {f \in [CropDates -> {NoRaster, FineGrid}] :
              \A d \in CropDates : d > 1 => f[d] = FineGrid}
    /\ composite_files \in
          {f \in [CropDates -> {NoRaster, CoarseGrid}] :
              \A d \in CropDates : d > 1 => f[d] = CoarseGrid}
    /\ fusion_bounds = [d \in CropDates |-> NoBounds]
    /\ fusion_rows = [d \in CropDates |-> 0]
    /\ chosen = [d \in CropDates |-> 0]
    /\ processed = [k \in Kinds |-> [d \in CropDates |-> NoOutcome]]
    /\ cropped = {}
    /\ ztodo = {}
    /\ zpc = "start"

NextCrop ==
    \/ crop_collect
    \/ crop_bounds
    \/ crop_next_loop
    \/ crop_s2
    \/ crop_s3
    \/ crop_fusion

SpecCrop == InitCrop /\ [][NextCrop]_vars

\* Any reference raster of up to MaxSize pixels a side.
InitGrid ==
    /\ IdleFiles
    /\ IdleOrder
    /\ IdleWindow
    /\ IdlePipeline
    /\ IdleInterleave
    /\ IdleDistance
    /\ IdleClouds
    /\ IdleComposite
    /\ IdlePrepare
    /\ IdleFusion
    /\ IdleNearest
    /\ IdleCrop
    /\ s3_ref \in [width : 1..MaxSize, height : 1..MaxSize,
                   dx : 1..MaxPixel, dy : 1..MaxPixel]
    /\ floatError \in FloatErrors
    /\ gvariant = "none"
    /\ refl_size = NoSize
    /\ coarse_size = NoSize
    /\ gpc = "start"

NextGrid == grid_prepare_s2 \/ grid_prepare_s3_efast \/ grid_prepare_s3_call

SpecGrid == InitGrid /\ [][NextGrid]_vars

\* Any raw files, any grids of the coarse ones, and for each run any order
\* of the fine files and any coarse file listed first.
InitOrder ==
    /\ IdleFiles
    /\ IdleClouds
    /\ IdleComposite
    /\ IdlePrepare
    /\ IdleFusion
    /\ IdleNearest
    /\ IdleCrop
    /\ IdleGrid
    /\ IdleDistance
    /\ IdleInterleave
    /\ IdlePipeline
    /\ IdleWindow
    /\ o_raw2 \in SUBSET S2Names
    /\ o_raw3 \in SUBSET S3Names
    /\ o_grid \in [S3Names -> Grids]
    /\ o_list \in [TwoRuns -> [s2 : Orders(o_raw2), s3 : FirstOrders(o_raw3)]]
    /\ ovariant \in Variants
    /\ o_out = [r \in TwoRuns |-> NoOutput]
    /\ o_done = {}

NextOrder == order_run

SpecOrder == InitOrder /\ [][NextOrder]_vars

\* Any two timestamps of the same season, with a time of day.
InitWindow ==
    /\ IdleFiles
    /\ IdleOrder
    /\ IdleClouds
    /\ IdleComposite
    /\ IdlePrepare
    /\ IdleFusion
    /\ IdleNearest
    /\ IdleCrop
    /\ IdleGrid
    /\ IdleDistance
    /\ IdleInterleave
    /\ IdlePipeline
    /\ w_entry \in Ticks
    /\ w_other \in Ticks
    /\ in_window = <<FALSE, FALSE>>
    /\ wpc = "start"

NextWindow == window_test

SpecWindow == InitWindow /\ [][NextWindow]_vars

\* Any set of DIST_CLOUD dates in prepared/s2, and any stages raising.
InitPipeline ==
    /\ IdleFiles
    /\ IdleOrder
    /\ IdleWindow
    /\ IdleClouds
    /\ IdleComposite
    /\ IdlePrepare
    /\ IdleFusion
    /\ IdleNearest
    /\ IdleCrop
    /\ IdleGrid
    /\ IdleDistance
    /\ IdleInterleave
    /\ pipe_dist_clouds \in SUBSET PipeDays
    /\ stage_raises \in [Range(Stages) -> BOOLEAN]
    /\ executed = <<>>
    /\ warned = FALSE
    /\ lpc = Stages[1]

NextPipeline ==
    \/ call_process_cropped
    \/ call_generate_ndvi_post_process
    \/ call_create_ndvi_timeseries_post_process

SpecPipeline == InitPipeline /\ [][NextPipeline]_vars

\* Two runs with disjoint, non-empty sets of dates; nothing written yet.
InitInterleave ==
    /\ IdleFiles
    /\ IdleOrder
    /\ IdleWindow
    /\ IdlePipeline
    /\ IdleClouds
    /\ IdleComposite
    /\ IdlePrepare
    /\ IdleFusion
    /\ IdleNearest
    /\ IdleCrop
    /\ IdleGrid
    /\ IdleDistance
    /\ s3_by_date \in {f \in [Runs -> SUBSET UnitDays \ {{}}] : f["A"] \cap f["B"] = {}}
    /\ temp_exists = FALSE
    /\ temp_files = {}
    /\ itodo = s3_by_date
    /\ sen3_paths = [r \in Runs |-> {}]
    /\ ipc = [r \in Runs |-> "start"]
    /\ s3_out = {}
    /\ s2_done = {}
    /\ crop_done = {}
    /\ touched = [q \in Paths |-> {}]

NextInterleave ==
    \/ \E r \in Runs : s3_setup(r)
    \/ \E r \in Runs : s3_compose(r)
    \/ \E r \in Runs : s3_glob(r)
    \/ \E r \in Runs : s3_reproject(r)
    \/ \E r \in Runs : s3_cleanup(r)
    \/ unit_prepare_s2
    \/ unit_process_cropped

SpecInterleave == InitInterleave /\ [][NextInterleave]_vars

\* The values a valid pixel may have in the first band, and what the
\* transform may give for a block without invalid pixel (hundredths).
ValidValues == {Frac(1, 2), Num(-1), NaN}
NoBackgroundValues == {0, 100, 30000}

\* A block with up to MaxInvalid invalid pixels, or with invalid ones only.
InitDistance ==
    /\ IdleFiles
    /\ IdleOrder
    /\ IdleWindow
    /\ IdlePipeline
    /\ IdleInterleave
    /\ IdleClouds
    /\ IdleComposite
    /\ IdlePrepare
    /\ IdleFusion
    /\ IdleNearest
    /\ IdleCrop
    /\ IdleGrid
    /\ \E invalid \in {I \in SUBSET Block : Cardinality(I) <= MaxInvalid} \cup {Block},
          v \in ValidValues :
          /\ s2_hr = [p \in Block |-> IF p \in invalid THEN Num(0) ELSE v]
          /\ noBackground \in IF invalid = {} THEN NoBackgroundValues ELSE {0}
    /\ distance_to_cloud_hr = [p \in Block |-> 0]
    /\ distance_to_cloud_lr = Num(0)
    /\ dpc = "start"

NextDistance == dist_cloud_hr \/ dist_cloud_lr

SpecDistance == InitDistance /\ [][NextDistance]_vars

\* prepared/s2 with DIST_CLOUD files of any dates, listed in any order, and
\* a fused file of any date.
InitNearest ==
    /\ IdleFiles
    /\ IdleOrder
    /\ IdleWindow
    /\ IdlePipeline
    /\ IdleInterleave
    /\ IdleDistance
    /\ IdleGrid
    /\ IdleCrop
    /\ IdleClouds
    /\ IdleComposite
    /\ IdlePrepare
    /\ IdleFusion
    /\ dist_listing \in UNION {Orders(S) : S \in SUBSET DistDays}
    /\ dist_cloud_dates = <<>>
    /\ target_date \in DistDays
    /\ dist_cloud = 0
    /\ npc = "start"

NextNearest == collect_dist_clouds \/ choose_dist_cloud

SpecNearest == InitNearest /\ [][NextNearest]_vars

\* A season with nothing fused yet, and any date range within Days (an
\* empty one too: end before start).
InitFusion ==
    /\ IdlePost
    /\ IdleClouds
    /\ IdleComposite
    /\ IdlePrepare
    /\ rvariant \in Variants
    /\ range \in {r \in [start : Days, end : 0..MaxDay] : r.start <= r.end + 1}
    /\ fusion = [d \in Days |-> 0]
    /\ calls = [d \in Days |-> 0]
    /\ visited = <<>>
    /\ current_date = 1
    /\ rpc = "idle"
    /\ rruns = 0

NextFusion ==
    \/ run_efast_start
    \/ run_efast_skip
    \/ fusion_saved
    \/ fusion_no_output
    \/ fusion_error
    \/ run_efast_return

SpecFusion == InitFusion /\ [][NextFusion]_vars

\* A season before its first prepare run: some acquisitions downloaded,
\* clouds.json missing or listing any of them, nothing prepared yet.
InitPrepare ==
    /\ IdlePost
    /\ IdleComposite
    /\ IdleFusion
    /\ ts = [x \in Sources |-> TsFile(FALSE, <<>>)]
    /\ win = [s \in Sources |-> <<>>]
    /\ cpc = "start"
    /\ raw2 \in SUBSET S2Names
    /\ raw3 \in SUBSET S3Names
    /\ \E e2 \in SUBSET raw2, e3 \in SUBSET raw3 :
          \E o2 \in {AnyOrder(e2)}, o3 \in {AnyOrder(e3)} :
              \/ clouds = [exists |-> TRUE, s2 |-> o2, s3 |-> o3]
              \/ /\ e2 = {} /\ e3 = {}
                 /\ clouds = [exists |-> FALSE, s2 |-> <<>>, s3 |-> <<>>]
    /\ prep2 = {}
    /\ prep3 = {}
    /\ temp = {}
    /\ used = Run("none", [s2 |-> {}, s3 |-> {}], NoName, 0, {}, {}, {}, FALSE)
    /\ pvariant \in Variants
    /\ runs = 0
    /\ changes = 0

NextPrepare ==
    prepare_s2 \/ prepare_s3_efast \/ prepare_s3_call \/ Arrive \/ Flag

SpecPrepare == InitPrepare /\ [][NextPrepare]_vars

InitComposite ==
    /\ IdlePost
    /\ IdleClouds
    /\ IdlePrepare
    /\ IdleFusion
    /\ group \in UNION {[1..n -> Rasters] : n \in 1..MaxMembers}
    /\ nanMode \in NanModes
    /\ variant = "none"
    /\ composite = [exists |-> FALSE, px |-> NoPx]
    /\ kpc = "start"

NextComposite == prepare_s3_date_efast \/ prepare_s3_date_call

SpecComposite == InitComposite /\ [][NextComposite]_vars

(***************************************************************************)
(* The timeseries.json files detect_clouds reads are the ones              *)
(* _create_timeseries_for_dir writes: one entry per NDVI raster, its date  *)
(* parsed from the 8-digit part of the filename (midnight of that day),    *)
(* its filename unique in the directory, the list sorted by date.          *)
(***************************************************************************)
MaxSamples == 3

SampleDays == {0, 14, 15}
SampleValues == {20, 29, 30, 45, 82}

\* One sample: a day and an NDVI value, or a day and null.
SampleChoices ==
    [day : SampleDays, ndvi : SampleValues, null : {FALSE}]
        \cup [day : SampleDays, ndvi : {0}, null : {TRUE}]

\* Raster <day>_<k>.geotiff of the NDVI directory.
FileName(day, k) == <<day, k>>

MidnightOf(day) == day * TicksPerDay

SeriesOf(f) ==
    [i \in 1..Len(f) |->
        Entry(MidnightOf(f[i].day), FileName(f[i].day, i), f[i].ndvi, f[i].null)]

IsSortedByDate(s) == \A i, j \in 1..Len(s) : i < j => s[i].date <= s[j].date

\* The series of section 8 of the specification: five consecutive days.
ExampleSeries(v4) ==
    SeriesOf(<<[day |-> 0, ndvi |-> 80, null |-> FALSE],
               [day |-> 1, ndvi |-> 75, null |-> FALSE],
               [day |-> 2, ndvi |-> 82, null |-> FALSE],
               [day |-> 3, ndvi |-> v4, null |-> FALSE],
               [day |-> 4, ndvi |-> 78, null |-> FALSE]>>)

SeriesSet ==
    {s \in {SeriesOf(f) : f \in UNION {[1..n -> SampleChoices] : n \in 0..MaxSamples}} :
        IsSortedByDate(s)}
        \cup {ExampleSeries(20), ExampleSeries(40)}

\* The other source's file: missing, empty, or a short series sharing
\* filenames with the first.
SmallSeriesSet ==
    {<<>>,
     SeriesOf(<<[day |-> 0, ndvi |-> 20, null |-> FALSE],
                [day |-> 14, ndvi |-> 82, null |-> FALSE],
                [day |-> 14, ndvi |-> 45, null |-> FALSE]>>)}

InitClouds ==
    /\ IdlePost
    /\ IdleComposite
    /\ IdlePrepare
    /\ IdleFusion
    /\ \E rich \in Sources, s \in SeriesSet, o \in SmallSeriesSet, oe \in BOOLEAN :
          ts = [x \in Sources |->
                   IF x = rich THEN TsFile(TRUE, s)
                   ELSE TsFile(oe, IF oe THEN o ELSE <<>>)]
    /\ clouds = [exists |-> FALSE, s2 |-> <<>>, s3 |-> <<>>]
    /\ win = [s \in Sources |-> <<>>]
    /\ cpc = "start"

NextClouds == detect_clouds

SpecClouds == InitClouds /\ [][NextClouds]_vars

\* Any site and season, any keys found by the two searches, any exclusion
\* lists, and any fine acquisitions already in raw/s2.
InitFiles ==
    /\ IdleClouds
    /\ IdleComposite
    /\ IdlePrepare
    /\ IdleFusion
    /\ IdleNearest
    /\ IdleCrop
    /\ IdleGrid
    /\ IdleDistance
    /\ IdleInterleave
    /\ IdlePipeline
    /\ IdleWindow
    /\ IdleOrder
    /\ f_site \in Sites
    /\ f_season \in Seasons
    /\ f_items \in [Sources -> SUBSET Items]
    /\ f_clouds \in [Sources -> SUBSET Items]
    /\ f_tree \in SUBSET Download(RawDir(f_site, f_season, "s2"), Items)
    /\ f_written = [src \in Sources |-> {}]
    /\ f_refl = {}
    /\ fpc = "download_s2"

NextFiles ==
    \/ download_s2
    \/ download_s3
    \/ generate_ndvi_raw
    \/ files_prepare_s2

SpecFiles == InitFiles /\ [][NextFiles]_vars

Init == InitClouds
Next == NextClouds
Spec == Init /\ [][Next]_vars

(***************************************************************************)
(* Properties of detect_clouds, checked under SpecClouds.                  *)
(***************************************************************************)
\* The non-null samples of a source's timeseries.
SamplesOf(s) == {e \in Range(ts[s].data) : ~e.null}

\* The samples of the same sensor at most 14 whole days away.
Within14Days(s, e) ==
    {f \in SamplesOf(s) : Abs(f.date - e.date) <= 14 * TicksPerDay}

\* C1: for every sensor and every non-null sample whose window (samples of
\* the same sensor within 14 days) has at least 3 members, the filename is in
\* the exclusion list iff the value is more than 0.15 below the window's
\* maximum and below 0.3.  With [0.8, 0.75, 0.82, 0.20, 0.78] on consecutive
\* days exactly the 0.20 sample is flagged; with 0.40 in its place, none is.
C1_FlaggedIffLowAndDipped ==
    cpc = "done" =>
        \A s \in Sources :
            /\ ts[s].exists =>
                  \A e \in SamplesOf(s) :
                      Cardinality(Within14Days(s, e)) >= 3 =>
                          (e.filename \in Range(clouds[s])
                              <=> /\ \E f \in Within14Days(s, e) : f.ndvi - e.ndvi > 15
                                  /\ e.ndvi < 30)
            /\ ts[s] = TsFile(TRUE, ExampleSeries(20))
                  => clouds[s] = <<FileName(3, 4)>>
            /\ ts[s] = TsFile(TRUE, ExampleSeries(40)) => clouds[s] = <<>>

C1_Witness ==
    /\ cpc = "done"
    /\ ts["s3"] = TsFile(TRUE, ExampleSeries(20))
    /\ clouds["s3"] = <<FileName(3, 4)>>

\* C2: the window set of a sample is exactly the non-null samples of the
\* same sensor whose date is within 14 days inclusive of it, the sample
\* itself among them, and a sample whose window set has fewer than 3 members
\* is never flagged, whatever its value.
C2_WindowAndMinSize ==
    cpc = "done" =>
        \A s \in Sources : ts[s].exists =>
            /\ {w.filename : w \in Range(win[s])} = {e.filename : e \in SamplesOf(s)}
            /\ \A e \in SamplesOf(s) :
                  \A w \in Range(win[s]) : w.filename = e.filename =>
                      /\ w.members = {f.filename : f \in Within14Days(s, e)}
                      /\ e.filename \in w.members
                      /\ Cardinality(w.members) < 3 => e.filename \notin Range(clouds[s])

\* A 0.20 sample 14 days before a 0.82 one, a third sample 15 days after it:
\* a window of two, and the sample is not flagged.
C2_Witness ==
    /\ cpc = "done"
    /\ \E e \in SamplesOf("s2") :
          /\ e.ndvi = 20
          /\ Cardinality(SamplesOf("s2")) = 3
          /\ Cardinality(Within14Days("s2", e)) = 2
          /\ \E f \in Within14Days("s2", e) :
                f.ndvi = 82 /\ f.date - e.date = 14 * TicksPerDay
          /\ e.filename \notin Range(clouds["s2"])

(***************************************************************************)
(* Properties of prepare_s3's date groups, checked under SpecComposite.    *)
(***************************************************************************)
\* Member m of the group, reprojected onto the shared reference grid.
Warped(m) == Reproject(group[m], nanMode)

\* The mean across bands of raster px at pixel p has magnitude >= 5.
MeanMagnitudeGe5(px, p) ==
    LET sum == SumSeq([b \in Bands |-> px[b][p]])
    IN  Abs(sum.n) >= 5 * Cardinality(Bands) * sum.d

\* The members of a stack of rasters that are not rejected at pixel p.
KeptAt(stack, p) ==
    SelectSeq([m \in 1..Len(stack) |-> m],
              LAMBDA m : ~MeanMagnitudeGe5(stack[m], p))

\* The raster whose value in each band at each pixel is the mean over the
\* members not rejected at that pixel, missing where every member is.
MeanOfKept(stack) ==
    [b \in Bands |-> [p \in Pixels |->
        LET kept == KeptAt(stack, p)
        IN  IF kept = <<>> THEN NaN
            ELSE FDiv(SumSeq([i \in 1..Len(kept) |-> stack[kept[i]][b][p]]),
                      Len(kept))]]

AllWarped == [m \in 1..Len(group) |-> Warped(m)]

\* C4: for a date group with exactly one acquisition the composite written
\* equals the direct reprojection of that acquisition onto the reference
\* grid: no outlier rejection, no averaging.
C4_SingleIsDirectReprojection ==
    (kpc = "done" /\ Len(group) = 1) =>
        composite = [exists |-> TRUE, px |-> Reproject(group[1], nanMode)]

\* A single acquisition that is an outlier at every pixel, written as it is.
C4_Witness ==
    /\ kpc = "done"
    /\ variant = "call_efast"
    /\ group = <<AllOut>>
    /\ composite.px = Reproject(AllOut, nanMode)
    /\ \A p \in Pixels : MeanMagnitudeGe5(composite.px, p)

\* C5 as stated: for a group of two or more, every member is first
\* reprojected, then a pixel of a member is missing in all bands exactly when
\* its mean across bands there has magnitude >= 5, and the composite is the
\* mean over the members not missing there.
C5_AsStated ==
    (kpc = "done" /\ Len(group) >= 2) => composite.px = MeanOfKept(AllWarped)

\* What the two modules compute: efast.py does as stated; call_efast.py
\* rejects and averages the members as read, on their own grid, and
\* reprojects the averaged raster onto the reference grid afterwards.
C5_RejectThenMean ==
    (kpc = "done" /\ Len(group) >= 2) =>
        /\ variant = "efast" => composite.px = MeanOfKept(AllWarped)
        /\ variant = "call_efast" =>
               composite.px = Reproject(MeanOfKept(group), nanMode)

\* efast.py: a member whose reprojected mean is exactly 5 at pixel 2 is left
\* out there and averaged in at pixel 1.
C5_Witness ==
    /\ kpc = "done"
    /\ variant = "efast"
    /\ group = <<Out2, Clean>>
    /\ KeptAt(AllWarped, 2) = <<2>>
    /\ KeptAt(AllWarped, 1) = <<1, 2>>
    /\ \A b \in Bands : composite.px[b][2] = Warped(2)[b][2]
    /\ composite.px[1][1] = Frac(5, 2)

\* The raster on which a variant applies the outlier test to member m.
Tested(m) == IF variant = "efast" THEN Warped(m) ELSE group[m]

RejectedEverywhere(m) == \A p \in Pixels : MeanMagnitudeGe5(Tested(m), p)
RejectedNowhere(m) == \A p \in Pixels : ~MeanMagnitudeGe5(Tested(m), p)

\* C6 as stated: for a two-member group in which one member has mean
\* magnitude >= 5 at every pixel, the composite equals the reprojection of
\* the other member, whichever is listed first.
C6_AsStated ==
    (kpc = "done" /\ Len(group) = 2) =>
        \A a, o \in {1, 2} :
            (a # o /\ RejectedEverywhere(a)) => composite.px = Warped(o)

\* C6 as amended: for a two-member group in which one member has mean
\* magnitude >= 5 at every pixel and the other has mean magnitude < 5 at
\* every pixel (both on the raster the module applies the outlier test to:
\* the reprojected member in efast.py, the member as read in call_efast.py),
\* the composite equals the reprojection of the other member, whichever is
\* listed first.
C6_OtherMemberExactly ==
    (kpc = "done" /\ Len(group) = 2) =>
        \A a, o \in {1, 2} :
            (a # o /\ RejectedEverywhere(a) /\ RejectedNowhere(o))
                => composite.px = Warped(o)

C6_Witness ==
    /\ kpc = "done"
    /\ variant = "call_efast"
    /\ group = <<Clean, AllOut>>
    /\ RejectedEverywhere(2)
    /\ RejectedNowhere(1)
    /\ composite.px = Reproject(Clean, nanMode)

\* C7 as stated: at a pixel where every member of a group of two or more is
\* marked missing the composite is not-a-number in every band, and at every
\* other pixel it is a defined number.
C7_AsStated ==
    (kpc = "done" /\ Len(group) >= 2) =>
        \A p \in Pixels : \A b \in Bands :
            IsNaN(composite.px[b][p])
                <=> \A m \in 1..Len(group) : MeanMagnitudeGe5(Tested(m), p)

\* The same, for efast.py alone.
C7_EfastOnly ==
    variant = "efast" => C7_AsStated

(***************************************************************************)
(* Properties of prepare_s2 and prepare_s3, checked under SpecPrepare.     *)
(***************************************************************************)
\* A step that is a run of prepare_s2 or prepare_s3.
IsRun == runs' # runs
IsRunOf(stage) == IsRun /\ used'.stage = stage

CoarseDates == {DateOf(f) : f \in S3Names}

\* C3: an acquisition whose filename is in the exclusion set loaded from
\* clouds.json is never consumed by prepare_s2 or prepare_s3 in that run: it
\* is not the reference raster, is not reprojected into a REFL product, is
\* in no date group that is composited; and a date all of whose coarse
\* acquisitions are excluded gets no composite written in that run.
C3_ExcludedNeverConsumed ==
    [][IsRun =>
        LET excl == LoadClouds
        IN  /\ used'.ref3 \notin excl.s3
            /\ IsRunOf("prepare_s2") =>
                  /\ used'.read \cap excl.s2 = {}
                  /\ \A x \in used'.wrote2 :
                        x.kind = "REFL" => x.src \notin excl.s2
            /\ IsRunOf("prepare_s3") =>
                  /\ used'.read \cap excl.s3 = {}
                  /\ \A c \in used'.wrote3 : Range(c.members) \cap excl.s3 = {}
                  /\ \A d \in CoarseDates :
                        (\A f \in raw3 : DateOf(f) = d => f \in excl.s3)
                            => /\ \A c \in used'.wrote3 : c.date # d
                               /\ d \notin temp'
    ]_vars

\* After prepare_s2 and prepare_s3 with one fine and two coarse acquisitions
\* excluded: the REFL product comes from the other fine acquisition, day 1's
\* composite from the other coarse one, and day 2 has no composite.
C3_Witness ==
    /\ used.stage = "prepare_s3"
    /\ ~used.raised
    /\ raw3 = S3Names
    /\ used.excl = [s2 |-> {<<1, 0>>}, s3 |-> {<<1, 0>>, <<2, 0>>}]
    /\ prep2 = {Refl(1, <<1, 1>>), DistCloud(1, <<1, 1>>)}
    /\ used.wrote3 = {Composite(1, <<<<1, 1>>>>)}
    /\ prep3 = used.wrote3

\* The composites of date d in a directory.
CompositesAt(dir, d) == {c \in dir : c.date = d}

\* Date d has a coarse acquisition that is not excluded.
HasAcquisition(d) == \E f \in raw3 \ LoadClouds.s3 : DateOf(f) = d

\* A composite written by the run holds exactly the non-excluded
\* acquisitions of its day, whatever their ordering indices.
GroupedByDay ==
    \A c \in used'.wrote3 :
        /\ Range(c.members) = {f \in raw3 \ LoadClouds.s3 : DateOf(f) = c.date}
        /\ Len(c.members) = Cardinality(Range(c.members))

NoReference ==
    IF used'.stage = "prepare_s2" THEN raw3 \ LoadClouds.s3 = {} ELSE prep2 = {}

\* The stage of this step wrote nothing into prepared/s2 and prepared/s3.
NothingPrepared ==
    /\ prep2' = prep2
    /\ prep3' = prep3
    /\ used'.wrote2 = {}
    /\ used'.wrote3 = {}

\* C11 as stated: when no usable reference raster exists the stage raises,
\* and it has written or left behind no prepared product (REFL, DIST_CLOUD
\* or composite) when the error is raised.
C11_AsStated ==
    [][(IsRun /\ NoReference) =>
          /\ used'.raised
          /\ NothingPrepared
          /\ IF used'.stage = "prepare_s3" THEN temp' = {} ELSE temp' = temp
    ]_vars

\* The same without the temp composites: the stage raises and the products
\* of prepared/s2 and prepared/s3 are as before.
C11_RaisesAndNothingPrepared ==
    [][(IsRun /\ NoReference) => (used'.raised /\ NothingPrepared)]_vars

(***************************************************************************)
(* Properties of run_efast, checked under SpecFusion.                      *)
(***************************************************************************)
\* C9 as stated, for run_efast: once the output of a date exists, a run
\* leaves it as it is and does not invoke the fusion operation for the date.
C9_AsStated ==
    [][\A d \in Days :
          fusion[d] > 0 => (fusion'[d] = fusion[d] /\ calls'[d] = calls[d])
    ]_vars

\* The same, for efast.py alone.
C9_EfastOnly ==
    [][rvariant = "efast" =>
          \A d \in Days :
              fusion[d] > 0 => (fusion'[d] = fusion[d] /\ calls'[d] = calls[d])
    ]_vars

\* The dates of the inclusive range, ascending.
RangeLength == IF range.end >= range.start THEN range.end - range.start + 1 ELSE 0

\* C10: run_efast reaches every calendar date of [start, end] in ascending
\* order, each at most once; neither an exception of the fusion operation
\* nor a date without output keeps a later date from being reached, and
\* run_efast returns normally.  (A date whose output exists is reached and
\* skipped by efast.py.)
C10_EveryDateReached ==
    /\ rpc # "raised"
    /\ Len(visited) <= RangeLength
    /\ \A i \in 1..Len(visited) : visited[i].date = range.start + i - 1
    /\ rpc = "loop" => current_date = range.start + Len(visited)
    /\ rpc = "returned" => Len(visited) = RangeLength

\* A run that has returned after an exception on the first date, no output
\* on the second and a fused raster on the third.
C10_Witness ==
    /\ rpc = "returned"
    /\ Len(visited) = 3
    /\ visited[1].outcome = "error"
    /\ visited[2].outcome = "no_output"
    /\ visited[3].outcome = "saved"
    /\ fusion[visited[3].date] = 1

(***************************************************************************)
(* Properties of process_cropped's choice of the DIST_CLOUD file, checked  *)
(* under SpecNearest.                                                      *)
(***************************************************************************)
Available == Range(dist_listing)

\* C12: the DIST_CLOUD product chosen for a fused date is the one of the
\* same date when it exists, else the one whose date has the smallest
\* absolute day distance to the fused date; of two equidistant dates the
\* earlier is chosen, whatever the order the files were listed in.
C12_ExactElseNearestEarliest ==
    npc = "found" =>
        /\ dist_cloud \in Available
        /\ target_date \in Available => dist_cloud = target_date
        /\ \A d \in Available :
              \/ Abs(dist_cloud - target_date) < Abs(d - target_date)
              \/ /\ Abs(dist_cloud - target_date) = Abs(d - target_date)
                 /\ dist_cloud <= d

\* Files of days 3 and 1, listed in that order, for a fused file of day 2:
\* day 1 is chosen.
C12_Witness ==
    /\ npc = "found"
    /\ dist_listing = <<3, 1>>
    /\ target_date = 2
    /\ dist_cloud = 1

(***************************************************************************)
(* Properties of process_cropped, checked under SpecCrop.                  *)
(***************************************************************************)
\* A non-missing value whose magnitude exceeds 0.001.
ExceedsEpsilonAbs(v) == ~IsNaN(v) /\ Abs(v.n) * 1000 > v.d

\* The rows (from 0 at the top) with such a value, and those with a value
\* that itself exceeds 0.001.
RowsOfMagnitude(rows) ==
    {i - 1 : i \in {j \in 1..Len(rows) :
                      \E k \in 1..Len(rows[j]) : ExceedsEpsilonAbs(rows[j][k])}}

RowsAboveEpsilon(rows) ==
    {i - 1 : i \in {j \in 1..Len(rows) :
                      \E k \in 1..Len(rows[j]) : ExceedsEpsilon(rows[j][k])}}

Scanned == {d \in CropDates : fusion_bounds[d] # NoBounds}

\* C13 as stated: the last valid row of a fused raster is the bottom-most row
\* that has, in any band, a non-missing pixel whose magnitude exceeds 0.001;
\* with the bottom 3 rows all missing and the others valid it is height-4.
C13_AsStated ==
    \A d \in Scanned :
        LET rows == fused_files[d].rows
        IN  /\ RowsOfMagnitude(rows) # {} =>
                  fusion_rows[d] = Max(RowsOfMagnitude(rows))
            /\ (/\ Len(rows) >= 4
                /\ \A i \in 1..Len(rows) :
                      rows[i] = IF i > Len(rows) - 3 THEN MissingRow ELSE ValidRow)
                   => fusion_rows[d] = Len(rows) - 4

\* What the scan finds: the bottom-most row with a value above 0.001, the
\* sign counting.
C13_SignedScan ==
    \A d \in Scanned :
        LET rows == fused_files[d].rows
        IN  fusion_rows[d] = IF RowsAboveEpsilon(rows) = {} THEN Len(rows)
                             ELSE Max(RowsAboveEpsilon(rows))

\* The geographic bottom edge of row r of a fused raster.
BottomEdge(fused, r) == fused.geometry.top - (r + 1) * fused.geometry.px

\* C14 as stated: the crop window of a fused date has the left, right and
\* top of the chosen DIST_CLOUD extent, and as bottom the maximum of that
\* extent's bottom and the bottom edge of the fused raster's last valid row.
C14_AsStated ==
    \A d \in Scanned :
        LET rows == fused_files[d].rows
            dist == dist_cloud_files[chosen[d]]
        IN  /\ fusion_bounds[d].left = dist.left
            /\ fusion_bounds[d].right = dist.right
            /\ fusion_bounds[d].top = dist.top
            /\ RowsOfMagnitude(rows) # {} =>
                  fusion_bounds[d].bottom =
                      Max({dist.bottom,
                           BottomEdge(fused_files[d], Max(RowsOfMagnitude(rows)))})

\* The same with the row the scan reports.
C14_WithScannedRow ==
    \A d \in Scanned :
        LET dist == dist_cloud_files[chosen[d]]
        IN  fusion_bounds[d] =
                Bounds(dist.left,
                       Max({dist.bottom, BottomEdge(fused_files[d], fusion_rows[d])}),
                       dist.right, dist.top)

Saved(kind, d) == processed[kind][d].result = "saved"

\* C15 as stated: for every date with cropped fine-grid, coarse-grid and
\* fused outputs, the three have identical geographic bounds.
C15_AsStated ==
    \A d \in CropDates :
        (\A k \in Kinds : Saved(k, d)) =>
            /\ processed["s2"][d].bounds = processed["s3"][d].bounds
            /\ processed["s3"][d].bounds = processed["fusion"][d].bounds

\* The fine-grid and coarse-grid outputs have the crop bounds.
C15_FineAndCoarseAgree ==
    \A d \in CropDates :
        \A k \in {"s2", "s3"} : Saved(k, d) => processed[k][d].bounds = fusion_bounds[d]

SrcOf(kind, d) ==
    IF kind = "s2" THEN refl_files[d]
    ELSE IF kind = "s3" THEN composite_files[d]
    ELSE fused_files[d].geometry

RowHeightOf(kind, d) == IF kind = "fusion" THEN fusion_rows[d] + 1 ELSE NoRowHeight

\* The window asked for, clipped to the raster, has no width or no height.
ClippedEmpty(kind, d) ==
    LET w == AskedWindow(SrcOf(kind, d), fusion_bounds[d], RowHeightOf(kind, d))
        src == SrcOf(kind, d)
        width == -Max({-(w.col_off + w.width), -src.width}) - Max({w.col_off, 0})
        height == -Max({-(w.row_off + w.height), -src.height}) - Max({w.row_off, 0})
    IN  width <= 0 \/ height <= 0

\* C16 as stated: when the crop window clipped to the raster has zero width
\* or height, _crop_to_bounds writes no file and reports failure without
\* raising, and process_cropped goes on with the other products and dates.
C16_AsStated ==
    /\ zpc # "raised"
    /\ \A c \in cropped :
          ClippedEmpty(c.kind, c.date) =>
              (c.result = "false" /\ ~Saved(c.kind, c.date))

\* When _crop_to_bounds returns False no file is written and the loops go on.
C16_FalseIsSkipped ==
    \A c \in cropped :
        c.result = "false" => (~Saved(c.kind, c.date) /\ zpc # "raised")

(***************************************************************************)
(* Properties of the grid sizes, checked under SpecGrid.                   *)
(***************************************************************************)
\* C17 as stated: every REFL product has 21 times the width and height of
\* the coarse reference raster; the coarse size prepare_s3 derives is the
\* fine size divided by the ratio, rounded down, and so the reference
\* raster's width and height.
C17_AsStated ==
    /\ gpc # "start" =>
          /\ refl_size.width = 21 * s3_ref.width
          /\ refl_size.height = 21 * s3_ref.height
    /\ gpc = "s3" =>
          /\ coarse_size = Size(refl_size.width \div 21, refl_size.height \div 21)
          /\ coarse_size = Size(s3_ref.width, s3_ref.height)

\* The fine size is as stated in both modules, the coarse size in efast.py.
C17_FineSizeAndEfast ==
    /\ gpc # "start" =>
          /\ refl_size.width = 21 * s3_ref.width
          /\ refl_size.height = 21 * s3_ref.height
    /\ (gpc = "s3" /\ gvariant = "efast") =>
          coarse_size = Size(s3_ref.width, s3_ref.height)

(***************************************************************************)
(* Properties of the DIST_CLOUD product, checked under SpecDistance.       *)
(***************************************************************************)
Invalid == {p \in Block : IsZero(s2_hr[p])}

\* C18: a fine-grid pixel is valid iff its first-band value is not 0 (the
\* invalid pixels are those of distance 0 when there is one), every value of
\* the clipped fine-resolution distance field lies in [0, 255], and so does
\* the coarse value, their area average.
C18_ValidityAndRange ==
    /\ dpc # "start" =>
          /\ \A p \in Block : 0 <= distance_to_cloud_hr[p] /\ distance_to_cloud_hr[p] <= 25500
          /\ Invalid # {} =>
                \A p \in Block : (distance_to_cloud_hr[p] = 0) <=> (p \in Invalid)
    /\ dpc = "lr" =>
          /\ ~IsNaN(distance_to_cloud_lr)
          /\ 0 <= distance_to_cloud_lr.n
          /\ distance_to_cloud_lr.n <= 25500 * distance_to_cloud_lr.d

\* A block of valid pixels for which the transform gives 300: the field and
\* its average are clipped to 255.
C18_Witness ==
    /\ dpc = "lr"
    /\ Invalid = {}
    /\ noBackground = 30000
    /\ \A p \in Block : distance_to_cloud_hr[p] = 25500
    /\ distance_to_cloud_lr = Num(25500)

\* The pixels around p, and p is inside the block with only valid ones around.
Around(p) ==
    {q \in Block : q # p /\ Abs(q[1] - p[1]) <= 1 /\ Abs(q[2] - p[2]) <= 1}

SurroundedByValid(p) == Cardinality(Around(p)) = 8 /\ Around(p) \cap Invalid = {}

Finished == \A r \in Runs : ipc[r] \in {"done", "error"}

\* What the runs leave one after the other: every run done, the composites
\* of both runs' dates in prepared/s3, no temporary directory.
AsSequential ==
    /\ \A r \in Runs : ipc[r] = "done"
    /\ s3_out = UNION {s3_by_date[r] : r \in Runs}
    /\ ~temp_exists

\* C20 as stated: however the units of different dates, or two runs of a
\* stage over disjoint sets of dates, are interleaved, no two units write,
\* delete or overwrite the same file or directory, and the final outputs
\* equal those of a sequential run.
C20_AsStated ==
    /\ \A q \in Paths : Cardinality(touched[q]) <= 1
    /\ Finished => AsSequential

(***************************************************************************)
(* Properties of run_pipeline, checked under SpecPipeline.                 *)
(***************************************************************************)
Called(st) == \E i \in 1..Len(executed) : executed[i] = st

\* C21 as stated: when a stage raises, or finds its reference rasters
\* missing, no later stage is executed and the error reaches the caller; in
\* particular, when process_cropped finds no DIST_CLOUD file the NDVI stages
\* after it do not run.
C21_AsStated ==
    /\ \A i \in 1..Len(executed) :
          stage_raises[executed[i]] => (i = Len(executed) /\ lpc = "raised")
    /\ pipe_dist_clouds = {} =>
          /\ ~Called(Stages[2])
          /\ ~Called(Stages[3])
          /\ lpc # "returned"

(***************************************************************************)
(* Properties of the window test, checked under SpecWindow.                *)
(***************************************************************************)
\* C22 as stated: window membership is symmetric for arbitrary timestamps,
\* also with a time of day: a sample is in the window of another iff the
\* other is in its window.
C22_AsStated == wpc = "done" => (in_window[1] <=> in_window[2])

(***************************************************************************)
(* Freshness of the prepared products, checked under SpecPrepare.          *)
(***************************************************************************)
\* The acquisitions of a raw directory that the exclusion set leaves.
Current(raw, excl) == raw \ excl

\* C23 as stated: after any sequence of detect_clouds, prepare_s2 and
\* prepare_s3 runs with acquisitions arriving in between, when a prepare run
\* has completed every prepared product of its directory is derived only
\* from acquisitions that are in the raw directory and not excluded, and a
\* composite misses no such acquisition of its date.
C23_AsStated ==
    [][(IsRun /\ ~used'.raised) =>
        LET excl == LoadClouds
        IN  /\ IsRunOf("prepare_s2") =>
                  \A x \in prep2' : x.src \in Current(raw2, excl.s2)
            /\ IsRunOf("prepare_s3") =>
                  \A c \in prep3' :
                      Range(c.members) =
                          {f \in Current(raw3, excl.s3) : DateOf(f) = c.date}
    ]_vars

(***************************************************************************)
(* Properties of two runs on the same files, checked under SpecOrder.      *)
(***************************************************************************)
\* C24 as stated: the prepared outputs are a function of the set of input
\* files and not of the listing order: two runs on the same files listed in
\* different orders choose the same reference grid, make the same REFL
\* product for a date with several fine acquisitions, and the same
\* composite for each date.
C24_AsStated ==
    o_done = TwoRuns =>
        /\ o_out[1].grid = o_out[2].grid
        /\ o_out[1].refl = o_out[2].refl
        /\ o_out[1].composites = o_out[2].composites

(***************************************************************************)
(* Further properties of process_cropped, checked under SpecCrop.          *)
(***************************************************************************)
\* The bottom row of the cropped fused raster of date d: the fused crop
\* starts at row 0 of the source.
BottomRowOf(d) == fused_files[d].rows[processed["fusion"][d].height]

\* C25 as stated: every cropped fused raster written ends at its last valid
\* row, its bottom row holding a non-missing pixel above 0.001, and for a
\* fused raster with no valid row no cropped output of any of the three
\* product families is written for that date.
C25_AsStated ==
    \A d \in CropDates :
        /\ Saved("fusion", d) => RowIsValid(BottomRowOf(d))
        /\ (fused_files[d] # NoFused /\ RowsAboveEpsilon(fused_files[d].rows) = {}) =>
              \A k \in Kinds : ~Saved(k, d)

\* The pixel block _crop_to_bounds copies for product kind of date d.
BlockOf(kind, d) ==
    Intersection(AskedWindow(SrcOf(kind, d), fusion_bounds[d], RowHeightOf(kind, d)),
                 Window(0, 0, SrcOf(kind, d).width, SrcOf(kind, d).height), windowMode)

\* Where the source's transform puts a block of its pixels.
PlaceOf(src, w) ==
    Bounds(src.left + w.col_off * src.px,
           src.top - (w.row_off + w.height) * src.px,
           src.left + (w.col_off + w.width) * src.px,
           src.top - w.row_off * src.px)

\* C26 as stated: the block _crop_to_bounds copies lies inside the source's
\* pixel bounds, and the transform written with it puts every copied pixel
\* where the source's transform had it, also when the window asked for was
\* clipped to the source or rounded to whole pixels.
C26_AsStated ==
    \A d \in CropDates : \A k \in Kinds :
        Saved(k, d) =>
            LET src == SrcOf(k, d)
                w == BlockOf(k, d)
            IN  /\ w.col_off >= 0 /\ w.col_off + w.width <= src.width
                /\ w.row_off >= 0 /\ w.row_off + w.height <= src.height
                /\ processed[k][d].width = w.width
                /\ processed[k][d].height = w.height
                /\ processed[k][d].bounds = PlaceOf(src, w)

\* The crop of product kind of date d failed or was skipped.
Failed(kind, d) ==
    Call(kind, d, "false") \in cropped \/ Call(kind, d, "error") \in cropped

\* C27 as stated: a cropped fine-grid or coarse-grid output is written for a
\* date only if a fused raster exists for that date, and whenever the crop
\* of one of the available product families of a date fails or is skipped,
\* no cropped output of the other families is left for that date.
C27_AsStated ==
    \A d \in CropDates :
        /\ (Saved("s2", d) \/ Saved("s3", d)) => fused_files[d] # NoFused
        /\ \A k \in Kinds :
              Failed(k, d) => \A other \in Kinds \ {k} : ~Saved(other, d)

\* C27 as amended: a cropped output of any family is written for a date only
\* if a fused raster exists for that date and got crop bounds, and a family
\* has an output for a date exactly when its own crop of that date
\* succeeded, whatever became of the other families' crops.
C27_OnlyWithFusedEachOnItsOwn ==
    \A d \in CropDates : \A k \in Kinds :
        /\ Saved(k, d) => (fused_files[d] # NoFused /\ fusion_bounds[d] # NoBounds)
        /\ Saved(k, d) <=> Call(k, d, "saved") \in cropped

\* Date 1 cropped in all three families; date 2 has a REFL file and a
\* composite but no fused raster, and nothing cropped.
C27_Witness ==
    /\ zpc = "done"
    /\ \A k \in Kinds : Saved(k, 1)
    /\ fused_files[2] = NoFused
    /\ refl_files[2] # NoRaster
    /\ composite_files[2] # NoRaster
    /\ \A k \in Kinds : ~Saved(k, 2)

(***************************************************************************)
(* C28: every raster written by download_s2 and download_s3 lies in the    *)
(* raw directory of its source that the NDVI stage and prepare_s2 read for *)
(* the same site and season, and once prepare_s2 has run without raising   *)
(* there is a REFL product for the date of every downloaded fine           *)
(* acquisition that clouds.json does not exclude.                          *)
(***************************************************************************)
C28_AsStated ==
    /\ \A source \in Sources : \A f \in f_written[source] :
           f.dir = RawDir(f_site, f_season, source)
    /\ fpc = "done" =>
           \A key \in f_items["s2"] \ f_clouds["s2"] : DateOf(key) \in f_refl

====
